---- MODULE Spec2Model ----
(***************************************************************************)
(* A model of the OpenAI traffic logger (src/src/openai_logger.py) and its *)
(* storage layer (src/src/log_storage.py).                                 *)
(*                                                                         *)
(* Text (a Python str) is a sequence of atoms.  An atom is an indivisible  *)
(* run of characters, written as a TLA+ string: "{" is one character,      *)
(* "data:" stands for the five characters d,a,t,a,: and "key" for a run of *)
(* letters.  A Python value is a tagged record [t |-> type, v |-> value].  *)
(***************************************************************************)
EXTENDS Integers, Sequences, FiniteSets, TLC

VARIABLES
    preprocessors,  \* OpenAILogger._request_preprocessors (set by __init__)
    flow,           \* flow[f]: the flow object (request, response, metadata)
    files,          \* files[path]: the bytes of the JSONL file at path
    calls,          \* the append_jsonl calls made so far: <<exchange, path, payload>>
    resolveCalls,   \* resolveCalls[f]: the StorageRouter.resolve calls made for f,
                    \*   each with the handler event it was made in and its result
    ppCalls,        \* ppCalls[f]: the preprocessor positions invoked for f
    ran,            \* ran[f]: the parsers the last response handler ran
    events,         \* events[f]: the handler events delivered for f
    raised,         \* raised[f]: a handler of f ended by raising
    bodyLines,      \* the lines of a response body given to parse_sse_events
    parsedEvents,   \* what parse_sse_events returned for them
    streamEvents,   \* the events given to aggregate_streamed_response
    aggregateResult,\* what aggregate_streamed_response returned (or that it raised)
    registryCall    \* an EndpointRegistry and the match and supports calls made on it

\* the state of the logger and of the exchanges
logger == <<preprocessors, flow, files, calls, resolveCalls, ppCalls, ran, events, raised>>

\* the arguments and results of the parser, the aggregator and the registry
\* called on their own
direct == <<bodyLines, parsedEvents, streamEvents, aggregateResult, registryCall>>

vars == <<preprocessors, flow, files, calls, resolveCalls, ppCalls, ran, events, raised,
          bodyLines, parsedEvents, streamEvents, aggregateResult, registryCall>>

----------------------------------------------------------------------------
(* Python values *)

None == [t |-> "none"]

PyBool(b) == [t |-> "bool", v |-> b]

PyInt(n) == [t |-> "int", v |-> n]

PyFloat(a) == [t |-> "float", v |-> a]

PyStr(s) == [t |-> "str", v |-> s]

PyList(l) == [t |-> "list", v |-> l]

PyDict(f) == [t |-> "dict", v |-> f]

EmptyDict == PyDict(<< >>)

IsNone(x) == x.t = "none"

IsDict(x) == x.t = "dict"

IsStr(x) == x.t = "str"

IsList(x) == x.t = "list"

\* isinstance(x, int): a Python bool is an int
IsInt(x) == x.t \in {"int", "bool"}

\* the integer a Python int or bool compares and hashes as
IntOf(x) == IF x.t = "bool" THEN (IF x.v THEN 1 ELSE 0) ELSE x.v

\* k in d
Has(d, k) == k \in DOMAIN d.v

\* d.get(k, default)
Get(d, k, default) == IF Has(d, k) THEN d.v[k] ELSE default

\* d[k] = x
Put(d, k, x) == PyDict((k :> x) @@ d.v)

\* bool(x)
Truthy(x) ==
    CASE x.t = "none" -> FALSE
      [] x.t = "bool" -> x.v
      [] x.t = "int" -> x.v # 0
      [] x.t = "float" -> x.v # "0.0"
      [] x.t = "str" -> x.v # << >>
      [] x.t = "list" -> x.v # << >>
      [] x.t = "dict" -> DOMAIN x.v # {}
      [] OTHER -> TRUE

----------------------------------------------------------------------------
(* JSON text: orjson.loads *)

Whitespace == {" ", "\n"}

IntNumerals == {"-1", "0", "1", "2", "7"}

FloatNumerals == {"0.0", "1.5"}

NumeralValue(a) ==
    CASE a = "-1" -> 0 - 1
      [] a = "0" -> 0
      [] a = "1" -> 1
      [] a = "2" -> 2
      [] OTHER -> 7

RECURSIVE SkipWs(_)
SkipWs(s) == IF s # << >> /\ Head(s) \in Whitespace THEN SkipWs(Tail(s)) ELSE s

ParseFail == [ok |-> FALSE, val |-> None, rest |-> << >>]

ParseOk(v, r) == [ok |-> TRUE, val |-> v, rest |-> r]

\* the characters of a string literal after its opening quote
RECURSIVE ScanString(_, _)
ScanString(s, acc) ==
    IF s = << >> \/ Head(s) = "\n" THEN ParseFail
    ELSE IF Head(s) = "\"" THEN ParseOk(PyStr(acc), Tail(s))
    ELSE ScanString(Tail(s), Append(acc, Head(s)))

RECURSIVE ParseValue(_), ParseMembers(_, _), ParseElements(_, _)
ParseValue(text) ==
    LET s == SkipWs(text) IN
    IF s = << >> THEN ParseFail
    ELSE LET a == Head(s)
             r == Tail(s)
         IN CASE a = "{" ->
                   IF SkipWs(r) # << >> /\ Head(SkipWs(r)) = "}"
                   THEN ParseOk(EmptyDict, Tail(SkipWs(r)))
                   ELSE ParseMembers(r, EmptyDict)
              [] a = "[" ->
                   IF SkipWs(r) # << >> /\ Head(SkipWs(r)) = "]"
                   THEN ParseOk(PyList(<< >>), Tail(SkipWs(r)))
                   ELSE ParseElements(r, << >>)
              [] a = "\"" -> ScanString(r, << >>)
              [] a = "null" -> ParseOk(None, r)
              [] a = "true" -> ParseOk(PyBool(TRUE), r)
              [] a = "false" -> ParseOk(PyBool(FALSE), r)
              [] a \in IntNumerals -> ParseOk(PyInt(NumeralValue(a)), r)
              [] a \in FloatNumerals -> ParseOk(PyFloat(a), r)
              [] OTHER -> ParseFail

\* the members of an object after "{" or ",": a later duplicate key wins
ParseMembers(text, acc) ==
    LET s == SkipWs(text) IN
    IF s = << >> \/ Head(s) # "\"" THEN ParseFail
    ELSE LET key == ScanString(Tail(s), << >>) IN
         IF ~key.ok THEN ParseFail
         ELSE LET c == SkipWs(key.rest) IN
              IF c = << >> \/ Head(c) # ":" THEN ParseFail
              ELSE LET val == ParseValue(Tail(c)) IN
                   IF ~val.ok THEN ParseFail
                   ELSE LET d == SkipWs(val.rest)
                            next == Put(acc, key.val.v, val.val)
                        IN IF d = << >> THEN ParseFail
                           ELSE IF Head(d) = "," THEN ParseMembers(Tail(d), next)
                           ELSE IF Head(d) = "}" THEN ParseOk(next, Tail(d))
                           ELSE ParseFail

\* the elements of an array after "[" or ","
ParseElements(text, acc) ==
    LET val == ParseValue(text) IN
    IF ~val.ok THEN ParseFail
    ELSE LET d == SkipWs(val.rest)
             next == Append(acc, val.val)
         IN IF d = << >> THEN ParseFail
            ELSE IF Head(d) = "," THEN ParseElements(Tail(d), next)
            ELSE IF Head(d) = "]" THEN ParseOk(PyList(next), Tail(d))
            ELSE ParseFail

\* orjson.loads succeeds on the text: one JSON value and nothing else
Decodes(text) ==
    LET p == ParseValue(text) IN p.ok /\ SkipWs(p.rest) = << >>

\* read_json: the parsed value, None on a decode error (and for the text null)
read_json(text) == IF Decodes(text) THEN ParseValue(text).val ELSE None

----------------------------------------------------------------------------
(* Text helpers: str.strip, str.splitlines, str.startswith, the in operator *)

RECURSIVE StripRight(_)
StripRight(s) ==
    IF s # << >> /\ s[Len(s)] \in Whitespace
    THEN StripRight(SubSeq(s, 1, Len(s) - 1))
    ELSE s

\* s.strip()
Strip(s) == StripRight(SkipWs(s))

\* text.splitlines(): the lines between line breaks, no empty last line
RECURSIVE SplitLines(_, _)
SplitLines(text, line) ==
    IF text = << >> THEN (IF line = << >> THEN << >> ELSE <<line>>)
    ELSE IF Head(text) = "\n" THEN <<line>> \o SplitLines(Tail(text), << >>)
    ELSE SplitLines(Tail(text), Append(line, Head(text)))

\* needle in haystack, for two strs
IsSubstring(needle, hay) ==
    \E i \in 0..(Len(hay) - Len(needle)) :
        SubSeq(hay, i + 1, i + Len(needle)) = needle

\* the name of a dict key or a one-atom str
K(a) == <<a>>

S(a) == PyStr(<<a>>)

----------------------------------------------------------------------------
(* is_event_stream and parse_sse_events *)

\* str.lower() of one atom
LowerAtom(a) ==
    CASE a = "Text/Event-Stream" -> "text/event-stream"
      [] a = "TEXT/EVENT-STREAM" -> "text/event-stream"
      [] a = "Application/JSON" -> "application/json"
      [] OTHER -> a

Lower(s) == [i \in 1..Len(s) |-> LowerAtom(s[i])]

\* a marker test that is sensitive to letter case
IsEventStreamExact(content_type) == IsSubstring(K("text/event-stream"), content_type)

is_event_stream(content_type) == IsSubstring(K("text/event-stream"), Lower(content_type))

\* a parser that skips the terminator line and reads on
RECURSIVE ParseSseLinesPastDone(_, _)
ParseSseLinesPastDone(lines, evs) ==
    IF lines = << >> THEN evs
    ELSE LET line == Strip(Head(lines))
             payload_text == Strip(Tail(line))
             payload == read_json(payload_text)
         IN IF line = << >> \/ Head(line) # "data:" THEN ParseSseLinesPastDone(Tail(lines), evs)
            ELSE IF payload_text = << >> THEN ParseSseLinesPastDone(Tail(lines), evs)
            ELSE IF payload_text = <<"[DONE]">> THEN ParseSseLinesPastDone(Tail(lines), evs)
            ELSE IF IsDict(payload)
                 THEN ParseSseLinesPastDone(Tail(lines), Append(evs, payload))
            ELSE ParseSseLinesPastDone(Tail(lines), evs)

\* a parser that gives up at the first data line that is no JSON object
RECURSIVE ParseSseLinesStrict(_, _)
ParseSseLinesStrict(lines, evs) ==
    IF lines = << >> THEN evs
    ELSE LET line == Strip(Head(lines))
             payload_text == Strip(Tail(line))
             payload == read_json(payload_text)
         IN IF line = << >> \/ Head(line) # "data:" THEN ParseSseLinesStrict(Tail(lines), evs)
            ELSE IF payload_text = << >> THEN ParseSseLinesStrict(Tail(lines), evs)
            ELSE IF payload_text = <<"[DONE]">> THEN evs
            ELSE IF IsDict(payload) THEN ParseSseLinesStrict(Tail(lines), Append(evs, payload))
            ELSE evs

\* the loop of parse_sse_events over the remaining lines
RECURSIVE ParseSseLines(_, _)
ParseSseLines(lines, evs) ==
    IF lines = << >> THEN evs
    ELSE LET line == Strip(Head(lines))
             payload_text == Strip(Tail(line))
             payload == read_json(payload_text)
         IN IF line = << >> \/ Head(line) # "data:" THEN ParseSseLines(Tail(lines), evs)
            ELSE IF payload_text = << >> THEN ParseSseLines(Tail(lines), evs)
            ELSE IF payload_text = <<"[DONE]">> THEN evs
            ELSE IF IsDict(payload) THEN ParseSseLines(Tail(lines), Append(evs, payload))
            ELSE ParseSseLines(Tail(lines), evs)

parse_sse_events(body_text) == ParseSseLines(SplitLines(body_text, << >>), << >>)

----------------------------------------------------------------------------
(* _merge_tool_call and aggregate_streamed_response.  A call either returns *)
(* a value or raises (TypeError, AttributeError, IndexError).               *)

Returned(v) == [raised |-> FALSE, val |-> v]

Raises == [raised |-> TRUE, val |-> None]

RECURSIVE SetToSeq(_)
SetToSeq(X) ==
    IF X = {} THEN << >>
    ELSE LET x == CHOOSE y \in X : TRUE IN <<x>> \o SetToSeq(X \ {x})

\* for item in x: the items a for loop visits, or TypeError
IterItems(x) ==
    CASE x.t = "list" -> [raised |-> FALSE, items |-> x.v]
      [] x.t = "str" -> [raised |-> FALSE, items |-> [i \in 1..Len(x.v) |-> S(x.v[i])]]
      [] x.t = "dict" ->
           [raised |-> FALSE,
            items |-> LET ks == SetToSeq(DOMAIN x.v) IN [i \in 1..Len(ks) |-> PyStr(ks[i])]]
      [] OTHER -> [raised |-> TRUE, items |-> << >>]

\* key in x, for a str key: "yes", "no" or "raise" (TypeError)
Contains(key, x) ==
    CASE x.t = "dict" -> IF Has(x, key) THEN "yes" ELSE "no"
      [] x.t = "str" -> IF IsSubstring(key, x.v) THEN "yes" ELSE "no"
      [] x.t = "list" -> IF \E i \in 1..Len(x.v) : x.v[i] = PyStr(key) THEN "yes" ELSE "no"
      [] OTHER -> "raise"

\* function[field] = ... for one field of delta["function"] (lines 101-106)
MergeFunctionField(function, df, field, concat) ==
    LET has == Contains(K(field), df) IN
    IF has = "raise" THEN Raises
    ELSE IF has = "no" THEN Returned(function)
    ELSE IF ~IsDict(df) THEN Raises
    ELSE IF ~concat THEN Returned(Put(function, K(field), df.v[K(field)]))
    ELSE IF ~IsStr(df.v[K(field)]) THEN Raises
    ELSE Returned(Put(function, K(field),
                      PyStr(Get(function, K(field), PyStr(<< >>)).v \o df.v[K(field)].v)))

\* target["id"] = delta["id"] and target["type"] = delta["type"] (lines 94-97)
MergeField(target, delta, field) ==
    IF Has(delta, K(field)) THEN Put(target, K(field), delta.v[K(field)]) ELSE target

\* target.setdefault("function", {}) (line 99)
EnsureFunction(target) ==
    IF Has(target, K("function")) THEN target ELSE Put(target, K("function"), EmptyDict)

\* target["function"] after the merge of both fields (lines 100-106)
StoreFunction(target, function) ==
    IF function.raised THEN Raises ELSE Returned(Put(target, K("function"), function.val))

MergeArguments(target, named, df) ==
    IF named.raised THEN Raises
    ELSE StoreFunction(target, MergeFunctionField(named.val, df, "arguments", TRUE))

MergeFunction(target, df) ==
    MergeArguments(target, MergeFunctionField(target.v[K("function")], df, "name", FALSE), df)

\* _merge_tool_call(target, delta): the target after the merge
_merge_tool_call(target, delta) ==
    IF ~Has(delta, K("function"))
    THEN Returned(MergeField(MergeField(target, delta, "id"), delta, "type"))
    ELSE MergeFunction(EnsureFunction(MergeField(MergeField(target, delta, "id"), delta, "type")),
                       delta.v[K("function")])

\* while len(tools) <= tool_index: tools.append({})
RECURSIVE PadTools(_, _)
PadTools(tools, tool_index) ==
    IF Len(tools) <= tool_index THEN PadTools(Append(tools, EmptyDict), tool_index)
    ELSE tools

\* the position of tools[tool_index] in a list of n entries, 0 for IndexError
ListPosition(n, tool_index) ==
    IF tool_index >= 0 THEN (IF tool_index < n THEN tool_index + 1 ELSE 0)
    ELSE (IF n + tool_index >= 0 THEN n + tool_index + 1 ELSE 0)

\* the loop over delta.tool_calls (lines 159-166): the choice's tools after it
RECURSIVE MergeToolCalls(_, _)

StoreTool(padded, pos, merged, rest) ==
    IF merged.raised THEN Raises
    ELSE MergeToolCalls([padded EXCEPT ![pos] = merged.val], rest)

\* _merge_tool_call(tools[tool_index], tool_call) (line 166)
MergeAt(padded, pos, tool_call, rest) ==
    IF pos = 0 THEN Raises
    ELSE StoreTool(padded, pos, _merge_tool_call(padded[pos], tool_call), rest)

\* one fragment of delta.tool_calls (lines 160-166)
MergeToolCall(tools, tool_call, tool_index, rest) ==
    IF ~IsInt(tool_index) THEN MergeToolCalls(tools, rest)
    ELSE MergeAt(PadTools(tools, IntOf(tool_index)),
                 ListPosition(Len(PadTools(tools, IntOf(tool_index))), IntOf(tool_index)),
                 tool_call, rest)

MergeToolCalls(tools, tool_calls) ==
    IF tool_calls = << >> THEN Returned(tools)
    ELSE IF ~IsDict(Head(tool_calls)) THEN Raises
    ELSE MergeToolCall(tools, Head(tool_calls), Get(Head(tool_calls), K("index"), None),
                       Tail(tool_calls))

\* the accumulator choices_state.setdefault creates (lines 136-145)
NewChoiceState(index) ==
    [index |-> index, role |-> None, content |-> PyStr(<< >>),
     tool_calls |-> << >>, finish_reason |-> None]

\* choices_state.setdefault(index, {...})
FetchState(choices_state, index) ==
    IF IntOf(index) \in DOMAIN choices_state THEN choices_state[IntOf(index)]
    ELSE NewChoiceState(index)

\* lines 147-148
WithFinishReason(state, choice) ==
    IF Has(choice, K("finish_reason")) /\ ~IsNone(choice.v[K("finish_reason")])
    THEN [state EXCEPT !.finish_reason = choice.v[K("finish_reason")]]
    ELSE state

\* lines 154-155
WithRole(state, delta) ==
    IF Has(delta, K("role")) THEN [state EXCEPT !.role = delta.v[K("role")]] ELSE state

\* "content" in delta and delta["content"] is not None
AddsContent(delta) == Has(delta, K("content")) /\ ~IsNone(delta.v[K("content")])

\* lines 156-157, for a str content
WithContent(state, delta) ==
    IF AddsContent(delta)
    THEN [state EXCEPT !.content = PyStr(@.v \o delta.v[K("content")].v)]
    ELSE state

\* for tool_call in delta.get("tool_calls", []) or []
ToolCallItems(tool_calls) ==
    IF Truthy(tool_calls) THEN IterItems(tool_calls)
    ELSE [raised |-> FALSE, items |-> << >>]

StoreChoice(choices_state, i, state, tools) ==
    IF tools.raised THEN Raises
    ELSE Returned((i :> [state EXCEPT !.tool_calls = tools.val]) @@ choices_state)

MergeTools(choices_state, i, state, it) ==
    IF it.raised THEN Raises
    ELSE StoreChoice(choices_state, i, state, MergeToolCalls(state.tool_calls, it.items))

\* lines 150-166: the delta of one choices entry
MergeDelta(choices_state, i, state, delta) ==
    IF ~IsDict(delta) THEN Returned((i :> state) @@ choices_state)
    ELSE IF AddsContent(delta) /\ ~IsStr(delta.v[K("content")]) THEN Raises
    ELSE MergeTools(choices_state, i, WithContent(WithRole(state, delta), delta),
                    ToolCallItems(Get(delta, K("tool_calls"), PyList(<< >>))))

\* the body of the loop over one choices entry (lines 133-166)
MergeChoice(choices_state, choice) ==
    IF ~IsDict(choice) THEN Raises
    ELSE IF ~IsInt(Get(choice, K("index"), None)) THEN Returned(choices_state)
    ELSE MergeDelta(choices_state, IntOf(choice.v[K("index")]),
                    WithFinishReason(FetchState(choices_state, choice.v[K("index")]), choice),
                    Get(choice, K("delta"), EmptyDict))

RECURSIVE MergeChoices(_, _)

NextChoice(merged, rest) ==
    IF merged.raised THEN Raises ELSE MergeChoices(merged.val, rest)

MergeChoices(choices_state, choices) ==
    IF choices = << >> THEN Returned(choices_state)
    ELSE NextChoice(MergeChoice(choices_state, Head(choices)), Tail(choices))

\* a loop that takes the usage of every event that has the key
LatestUsageOfAny(usage, event) ==
    IF Has(event, K("usage")) THEN event.v[K("usage")] ELSE usage

\* lines 129-130
LatestUsage(usage, event) ==
    IF IsDict(Get(event, K("usage"), None)) THEN event.v[K("usage")] ELSE usage

\* the loop over the events (lines 128-166): choices_state and usage after it
RECURSIVE MergeEvents(_, _, _)

NextEvent(merged, usage, rest) ==
    IF merged.raised THEN Raises ELSE MergeEvents(merged.val, usage, rest)

MergeEvent(choices_state, usage, it, rest) ==
    IF it.raised THEN Raises
    ELSE NextEvent(MergeChoices(choices_state, it.items), usage, rest)

MergeEvents(choices_state, usage, evs) ==
    IF evs = << >> THEN Returned([choices_state |-> choices_state, usage |-> usage])
    ELSE MergeEvent(choices_state, LatestUsage(usage, Head(evs)),
                    IterItems(Get(Head(evs), K("choices"), PyList(<< >>))), Tail(evs))

\* sorted(choices_state)
RECURSIVE Sorted(_)
Sorted(X) ==
    IF X = {} THEN << >>
    ELSE LET m == CHOOSE x \in X : \A y \in X : x <= y IN <<m>> \o Sorted(X \ {m})

\* a message that carries the accumulators as they are
MessageAsAccumulated(state) ==
    (K("tool_calls") :> PyList(state.tool_calls))
    @@ (K("role") :> (IF Truthy(state.role) THEN state.role ELSE S("assistant")))
    @@ (K("content") :> state.content)

\* message of one choice (lines 171-179)
Message(state) ==
    (IF state.tool_calls # << >> THEN (K("tool_calls") :> PyList(state.tool_calls)) ELSE << >>)
    @@ (K("role") :> (IF Truthy(state.role) THEN state.role ELSE S("assistant")))
    @@ (K("content") :> (IF Truthy(state.content) THEN state.content ELSE None))

\* the choice payload built from one accumulator (lines 170-186)
ChoicePayload(state) ==
    PyDict((K("index") :> state.index)
           @@ (K("message") :> PyDict(Message(state)))
           @@ (K("finish_reason") :> state.finish_reason))

\* lines 168-186: the choices in ascending order of index
Choices(choices_state, order) ==
    [n \in 1..Len(order) |-> ChoicePayload(choices_state[order[n]])]

\* lines 118-123
SeedResponse(first_event) ==
    (K("id") :> Get(first_event, K("id"), None))
    @@ (K("object") :> S("chat.completion"))
    @@ (K("created") :> Get(first_event, K("created"), None))
    @@ (K("model") :> Get(first_event, K("model"), None))

\* lines 188-192
Finalize(seed, merged) ==
    IF merged.raised THEN Raises
    ELSE Returned(PyDict(
             (IF ~IsNone(merged.val.usage) THEN (K("usage") :> merged.val.usage) ELSE << >>)
             @@ (K("choices") :> PyList(Choices(merged.val.choices_state,
                                               Sorted(DOMAIN merged.val.choices_state))))
             @@ seed))

\* lines 188-192 of an aggregator that reports no content when no choice was seen
FinalizeUnlessEmpty(seed, merged) ==
    IF ~merged.raised /\ DOMAIN merged.val.choices_state = {} THEN Returned(None)
    ELSE Finalize(seed, merged)

\* an aggregator for which a stream without choices is no content
AggregateNoChoicesIsNone(evs) ==
    IF evs = << >> THEN Returned(None)
    ELSE FinalizeUnlessEmpty(SeedResponse(evs[1]), MergeEvents(<< >>, None, evs))

\* an aggregator that seeds id, created and model from the latest event
AggregateSeedingLatest(evs) ==
    IF evs = << >> THEN Returned(None)
    ELSE Finalize(SeedResponse(evs[Len(evs)]), MergeEvents(<< >>, None, evs))

\* aggregate_streamed_response(events): Returned(None) is the no-content result
aggregate_streamed_response(evs) ==
    IF evs = << >> THEN Returned(None)
    ELSE Finalize(SeedResponse(evs[1]), MergeEvents(<< >>, None, evs))

----------------------------------------------------------------------------
(* The endpoint registry *)

\* a normalisation that keeps the query string
KeepQuery(path) == path

\* path.split("?", 1)[0]
RECURSIVE _normalize_path(_)
_normalize_path(path) ==
    IF path = << >> \/ Head(path) = "?" THEN << >>
    ELSE <<Head(path)>> \o _normalize_path(Tail(path))

\* text.endswith(suffix)
EndsWith(text, suffix) ==
    /\ Len(suffix) <= Len(text)
    /\ SubSeq(text, Len(text) - Len(suffix) + 1, Len(text)) = suffix

\* default_endpoint_registry(): one operation, chat.completions
default_endpoint_registry ==
    << [name |-> "chat.completions", suffixes |-> << <<"/chat", "/completions">> >>] >>

\* a match that prefers the operation registered last
RECURSIVE MatchFromLatest(_, _)
MatchFromLatest(endpoints, clean_path) ==
    IF endpoints = << >> THEN ""
    ELSE IF \E i \in 1..Len(endpoints[Len(endpoints)].suffixes) :
                EndsWith(clean_path, endpoints[Len(endpoints)].suffixes[i])
         THEN endpoints[Len(endpoints)].name
         ELSE MatchFromLatest(SubSeq(endpoints, 1, Len(endpoints) - 1), clean_path)

\* EndpointRegistry.match over the remaining endpoints: the first one a suffix of
\* which ends the cleaned path, "" for none
RECURSIVE MatchFrom(_, _)
MatchFrom(endpoints, clean_path) ==
    IF endpoints = << >> THEN ""
    ELSE IF \E i \in 1..Len(Head(endpoints).suffixes) :
                EndsWith(clean_path, Head(endpoints).suffixes[i])
         THEN Head(endpoints).name
         ELSE MatchFrom(Tail(endpoints), clean_path)

match(path) == MatchFrom(default_endpoint_registry, _normalize_path(path))

supports(path) == match(path) # ""

----------------------------------------------------------------------------
(* Storage: StoragePaths, _safe_path_segment, StorageRouter.resolve *)

\* cleaned[:120]
MaxSegment == 120

Allowed ==
    {"a", "b", "x", "A", "Z", "0", "1", "9", "-", "_", "."}

\* s.strip(chars): s from its first to its last character outside chars
StripChars(s, chars) ==
    LET kept == {i \in 1..Len(s) : s[i] \notin chars}
    IN IF kept = {} THEN << >>
       ELSE SubSeq(s, CHOOSE i \in kept : \A j \in kept : i <= j,
                   CHOOSE i \in kept : \A j \in kept : i >= j)

\* a sanitizer that replaces the characters but keeps leading and trailing dots
SafeSegmentUnstripped(value) ==
    LET v == StripChars(value, Whitespace)
        replaced == [i \in 1..Len(v) |-> IF v[i] \in Allowed THEN v[i] ELSE "_"]
        cut == SubSeq(replaced, 1,
                      IF Len(replaced) < MaxSegment THEN Len(replaced) ELSE MaxSegment)
    IN IF cut = << >> THEN K("unknown") ELSE cut

_safe_path_segment(value) ==
    LET v == StripChars(value, Whitespace)
        replaced == [i \in 1..Len(v) |-> IF v[i] \in Allowed THEN v[i] ELSE "_"]
        cleaned == StripChars(replaced, {".", "_", "-"})
        cut == SubSeq(cleaned, 1, IF Len(cleaned) < MaxSegment THEN Len(cleaned) ELSE MaxSegment)
    IN IF cut = << >> THEN K("unknown") ELSE cut

StoragePaths(input_path, output_path) ==
    [t |-> "StoragePaths", input_path |-> input_path, output_path |-> output_path]

IsStoragePaths(x) == x.t = "StoragePaths"

\* settings.data_dir
data_dir == << K("data") >>

\* StorageRouter._header_key
header_key == "x-batch-id"

\* request.headers.get(key, ""): a header the request lacks reads as the empty str
HeaderGet(headers, key) == IF key \in DOMAIN headers THEN headers[key] ELSE << >>

\* StorageRouter.resolve(flow)
resolve(fl) ==
    LET header_value == HeaderGet(fl.request.headers, header_key)
        base_dir == data_dir \o << K("requests"), _safe_path_segment(header_value) >>
    IN IF header_value # << >>
       THEN StoragePaths(Append(base_dir, K("input.jsonl")), Append(base_dir, K("output.jsonl")))
       ELSE StoragePaths(Append(data_dir, K("input.jsonl")), Append(data_dir, K("output.jsonl")))

----------------------------------------------------------------------------
(* append_jsonl and orjson.dumps *)

IntNumeral(n) ==
    CASE n = 0 - 1 -> "-1"
      [] n = 0 -> "0"
      [] n = 1 -> "1"
      [] n = 2 -> "2"
      [] OTHER -> "7"

\* orjson.dumps(payload): compact JSON text (the keys of a dict in a fixed order)
RECURSIVE Dumps(_), DumpsItems(_), DumpsMembers(_, _)
Dumps(x) ==
    CASE x.t = "none" -> <<"null">>
      [] x.t = "bool" -> IF x.v THEN <<"true">> ELSE <<"false">>
      [] x.t = "int" -> <<IntNumeral(x.v)>>
      [] x.t = "float" -> <<x.v>>
      [] x.t = "str" -> <<"\"">> \o x.v \o <<"\"">>
      [] x.t = "list" -> <<"[">> \o DumpsItems(x.v) \o <<"]">>
      [] OTHER -> <<"{">> \o DumpsMembers(x, SetToSeq(DOMAIN x.v)) \o <<"}">>

DumpsItems(items) ==
    IF items = << >> THEN << >>
    ELSE Dumps(Head(items))
         \o (IF Len(items) > 1 THEN <<",">> ELSE << >>)
         \o DumpsItems(Tail(items))

DumpsMembers(d, keys) ==
    IF keys = << >> THEN << >>
    ELSE <<"\"">> \o Head(keys) \o <<"\"", ":">> \o Dumps(d.v[Head(keys)])
         \o (IF Len(keys) > 1 THEN <<",">> ELSE << >>)
         \o DumpsMembers(d, Tail(keys))

\* the bytes of the file at path, empty when it does not exist
FileBytes(fs, path) == IF path \in DOMAIN fs THEN fs[path] ELSE << >>

\* an appender that leaves the record without its line end
AppendUnterminated(fs, path, payload, ok) ==
    IF ok THEN (path :> (FileBytes(fs, path) \o Dumps(payload))) @@ fs
    ELSE fs

\* append_jsonl(path, payload): the files afterwards; with an OSError
\* (ok = FALSE) a warning is logged and nothing is written
append_jsonl(fs, path, payload, ok) ==
    IF ok THEN (path :> (FileBytes(fs, path) \o Dumps(payload) \o <<"\n">>)) @@ fs
    ELSE fs

----------------------------------------------------------------------------
(* Request preprocessors *)

\* the longest list of preprocessors an OpenAILogger is built with
MaxPre == 2

\* the preprocessors of the tests (add_flag, veto) and one that nests the payload
PreprocessorKinds == {"add_flag", "veto", "wrap"}

\* preprocessor(payload, flow)
CallPreprocessor(kind, payload, fl) ==
    CASE kind = "add_flag" -> Put(payload, K("flag"), PyBool(TRUE))
      [] kind = "veto" -> None
      [] OTHER -> PyDict(K("wrapped") :> payload)

\* a pipeline that passes over a preprocessor returning no value
RECURSIVE ApplyFromPastVeto(_, _, _, _, _)
ApplyFromPastVeto(payload, fl, pps, i, invoked) ==
    IF i > Len(pps) THEN [payload |-> payload, invoked |-> invoked]
    ELSE LET updated == CallPreprocessor(pps[i], payload, fl) IN
         IF IsNone(updated) THEN ApplyFromPastVeto(payload, fl, pps, i + 1, Append(invoked, i))
         ELSE ApplyFromPastVeto(updated, fl, pps, i + 1, Append(invoked, i))

\* a pipeline that runs the preprocessors last to first
RECURSIVE ApplyFromReversed(_, _, _, _, _)
ApplyFromReversed(payload, fl, pps, i, invoked) ==
    IF i > Len(pps) THEN [payload |-> payload, invoked |-> invoked]
    ELSE LET at == Len(pps) + 1 - i
             updated == CallPreprocessor(pps[at], payload, fl) IN
         IF IsNone(updated) THEN [payload |-> None, invoked |-> Append(invoked, at)]
         ELSE ApplyFromReversed(updated, fl, pps, i + 1, Append(invoked, at))

\* _apply_preprocessors from position i on: the final payload (None for a veto)
\* and the positions invoked
RECURSIVE ApplyFrom(_, _, _, _, _)
ApplyFrom(payload, fl, pps, i, invoked) ==
    IF i > Len(pps) THEN [payload |-> payload, invoked |-> invoked]
    ELSE LET updated == CallPreprocessor(pps[i], payload, fl) IN
         IF IsNone(updated) THEN [payload |-> None, invoked |-> Append(invoked, i)]
         ELSE ApplyFrom(updated, fl, pps, i + 1, Append(invoked, i))

_apply_preprocessors(payload, fl, pps) == ApplyFrom(payload, fl, pps, 1, << >>)

----------------------------------------------------------------------------
(* OpenAILogger.request and OpenAILogger.response *)

REQUEST_METADATA_KEY == "openai_request_payload"

STORAGE_METADATA_KEY == "openai_storage_paths"

\* str.upper() of a method
Upper(method) ==
    CASE method = K("post") -> K("POST")
      [] method = K("Post") -> K("POST")
      [] method = K("get") -> K("GET")
      [] OTHER -> method

\* early returns that take any decodable body for a payload
RequestSkipsUndecodable(fl) ==
    \/ Upper(fl.request.method) # K("POST")
    \/ ~supports(fl.request.path)
    \/ fl.request.body_text = << >>
    \/ IsNone(read_json(fl.request.body_text))

\* the steps of request(flow) before the preprocessors (lines 230-241):
\* TRUE when the handler returns early
RequestSkips(fl) ==
    \/ Upper(fl.request.method) # K("POST")
    \/ ~supports(fl.request.path)
    \/ fl.request.body_text = << >>
    \/ ~IsDict(read_json(fl.request.body_text))

\* a request handler that stores the correlation state before it asks the
\* preprocessors
RequestStoringEarly(fl, pps) ==
    LET skip == [metadata |-> fl.metadata, appends |-> << >>, resolved |-> << >>,
                 invoked |-> << >>]
    IN IF RequestSkips(fl) THEN skip
       ELSE LET pre == _apply_preprocessors(read_json(fl.request.body_text), fl, pps)
                storage_paths == resolve(fl)
                stored == (REQUEST_METADATA_KEY :> read_json(fl.request.body_text))
                          @@ (STORAGE_METADATA_KEY :> storage_paths) @@ fl.metadata
            IN IF IsNone(pre.payload)
               THEN [metadata |-> stored, appends |-> << >>,
                     resolved |-> <<storage_paths>>, invoked |-> pre.invoked]
               ELSE [metadata |-> (REQUEST_METADATA_KEY :> pre.payload) @@ stored,
                     appends |-> << <<storage_paths.input_path, pre.payload>> >>,
                     resolved |-> <<storage_paths>>,
                     invoked |-> pre.invoked]

\* request(flow): what the handler does with the flow
\*   metadata: flow.metadata afterwards
\*   appends:  the append_jsonl calls made, <<path, payload>>
\*   resolved: the pairs the calls of StorageRouter.resolve returned
\*   invoked:  the preprocessor positions invoked
request(fl, pps) ==
    LET skip == [metadata |-> fl.metadata, appends |-> << >>, resolved |-> << >>,
                 invoked |-> << >>]
    IN IF RequestSkips(fl) THEN skip
       ELSE LET pre == _apply_preprocessors(read_json(fl.request.body_text), fl, pps)
                storage_paths == resolve(fl)
            IN IF IsNone(pre.payload) THEN [skip EXCEPT !.invoked = pre.invoked]
               ELSE [metadata |-> (REQUEST_METADATA_KEY :> pre.payload)
                                  @@ (STORAGE_METADATA_KEY :> storage_paths)
                                  @@ fl.metadata,
                     appends |-> << <<storage_paths.input_path, pre.payload>> >>,
                     resolved |-> <<storage_paths>>,
                     invoked |-> pre.invoked]

\* the destination pair response(flow) writes to (line 258)
ResponseStoragePaths(fl) ==
    IF STORAGE_METADATA_KEY \in DOMAIN fl.metadata THEN fl.metadata[STORAGE_METADATA_KEY]
    ELSE None

\* lines 270-273: nothing is appended for the no-content result
StreamOutcome(storage_paths, payload) ==
    [appends |-> IF payload.raised \/ IsNone(payload.val) THEN << >>
                 ELSE << <<storage_paths.output_path, payload.val>> >>,
     resolved |-> << >>,
     ran |-> {"parse_sse_events", "aggregate_streamed_response"},
     raised |-> payload.raised]

\* the event-stream branch of response(flow) (lines 267-273)
ResponseStream(fl, storage_paths) ==
    StreamOutcome(storage_paths,
                  aggregate_streamed_response(parse_sse_events(fl.response.body_text)))

\* the direct branch of response(flow) (lines 275-279)
ResponseJson(fl, storage_paths) ==
    LET payload == read_json(fl.response.body_text)
    IN [appends |-> IF IsNone(payload) THEN << >>
                    ELSE << <<storage_paths.output_path, payload>> >>,
        resolved |-> << >>,
        ran |-> {"read_json"},
        raised |-> FALSE]

\* response.headers.get("content-type", "")
ContentType(response) == HeaderGet(response.headers, "content-type")

\* an early return of response(flow)
ResponseSkip == [appends |-> << >>, resolved |-> << >>, ran |-> {}, raised |-> FALSE]

\* a response handler that asks the Storage Resolver again
ResponseResolvingAgain(fl) ==
    IF \/ REQUEST_METADATA_KEY \notin DOMAIN fl.metadata
       \/ IsNone(fl.response)
       \/ ~IsStoragePaths(ResponseStoragePaths(fl))
       \/ fl.response.body_text = << >>
    THEN ResponseSkip
    ELSE [(IF is_event_stream(ContentType(fl.response))
           THEN ResponseStream(fl, resolve(fl))
           ELSE ResponseJson(fl, resolve(fl)))
          EXCEPT !.resolved = <<resolve(fl)>>]

\* what a branch does when the stored pair has no output_path attribute
WithoutPaths(out) ==
    [out EXCEPT !.appends = << >>, !.raised = out.raised \/ out.appends # << >>]

\* a response handler that only checks that a pair is stored
ResponseUnchecked(fl) ==
    LET storage_paths == ResponseStoragePaths(fl)
        blank == StoragePaths(<< >>, << >>)
    IN IF \/ REQUEST_METADATA_KEY \notin DOMAIN fl.metadata
          \/ IsNone(fl.response)
          \/ IsNone(storage_paths)
          \/ fl.response.body_text = << >>
       THEN ResponseSkip
       ELSE IF IsStoragePaths(storage_paths)
            THEN (IF is_event_stream(ContentType(fl.response))
                  THEN ResponseStream(fl, storage_paths)
                  ELSE ResponseJson(fl, storage_paths))
            ELSE WithoutPaths(IF is_event_stream(ContentType(fl.response))
                              THEN ResponseStream(fl, blank)
                              ELSE ResponseJson(fl, blank))

\* response(flow): the append_jsonl calls made, the pairs resolved, the parsers
\* run, and whether the handler raised; flow.metadata is left as it is
response(fl) ==
    LET skip == ResponseSkip
        storage_paths == ResponseStoragePaths(fl)
    IN IF REQUEST_METADATA_KEY \notin DOMAIN fl.metadata THEN skip
       ELSE IF IsNone(fl.response) THEN skip
       ELSE IF ~IsStoragePaths(storage_paths) THEN skip
       ELSE IF fl.response.body_text = << >> THEN skip
       ELSE IF is_event_stream(ContentType(fl.response))
            THEN ResponseStream(fl, storage_paths)
            ELSE ResponseJson(fl, storage_paths)

----------------------------------------------------------------------------
(* The exchanges the hosting transport delivers *)

\* the exchanges in flight
Flows == {"f1"}

\* the most handler events delivered for one exchange
MaxEvents == 3

ObjectBody == <<"{", "\"", "key", "\"", ":", " ", "\"", "value", "\"", "}">>

EmptyObjectBody == <<"{", "}">>

ListBody == <<"[", "]">>

NullBody == <<"null">>

NotJsonBody == <<"not", " ", "json">>

JsonResponseBody == <<"{", "\"", "status", "\"", ":", " ", "\"", "ok", "\"", "}">>

ListResponseBody == <<"[", "1", "]">>

StreamBody ==
    <<"data:", " ", "{", "\"", "id", "\"", ":", "\"", "c1", "\"", ",", "\"", "choices",
      "\"", ":", "[", "{", "\"", "index", "\"", ":", "0", ",", "\"", "delta", "\"", ":",
      "{", "\"", "content", "\"", ":", "\"", "Hel", "\"", "}", "}", "]", "}", "\n",
      "\n", "data:", " ", "{", "\"", "choices", "\"", ":", "[", "{", "\"", "index",
      "\"", ":", "0", ",", "\"", "delta", "\"", ":", "{", "\"", "content", "\"", ":",
      "\"", "lo", "\"", "}", "}", "]", "}", "\n", "data:", " ", "[DONE]", "\n">>

DoneOnlyBody == <<"data:", " ", "[DONE]">>

EmptyEventBody == <<"data:", " ", "{", "}", "\n", "data:", " ", "[DONE]">>

MalformedStreamBody ==
    <<"event:", " ", "ping", "\n", "data:", "\n", "data:", " ", "not", " ", "json", "\n">>

RaisingStreamBody ==
    <<"data:", " ", "{", "\"", "choices", "\"", ":", " ", "null", "}", "\n">>

Methods == {K("POST"), K("post"), K("GET")}

ChatPath == <<"/v1", "/chat", "/completions">>

Paths ==
    {ChatPath,
     <<"/chat", "/completions">>,
     <<"/v1", "/chat", "/completions", "?", "x=1">>,
     <<"/other">>,
     <<"/other", "?", "q=", "/chat", "/completions">>}

RequestBodies ==
    {ObjectBody, EmptyObjectBody, ListBody, NullBody, NotJsonBody, << >>}

NoHeaders == << >>

BatchHeader(value) == (header_key :> value)

\* the headers a request arrives with
RequestHeaders == {NoHeaders, BatchHeader(<<".", ".", "/", "x">>)}

\* the headers a request is given after it has arrived
RewrittenHeaders == {BatchHeader(<<"b", "1">>)}

HttpRequest(method, path, body_text, headers) ==
    [t |-> "Request", method |-> method, path |-> path,
     body_text |-> body_text, headers |-> headers]

Requests ==
    {HttpRequest(m, p, ObjectBody, NoHeaders) : m \in Methods, p \in Paths}
    \cup {HttpRequest(K("POST"), ChatPath, b, h) : b \in RequestBodies, h \in RequestHeaders}

HttpResponse(body_text, content_type) ==
    [t |-> "Response", body_text |-> body_text,
     headers |-> IF content_type = << >> THEN NoHeaders ELSE ("content-type" :> content_type)]

JsonType == K("application/json")

StreamType == K("text/event-stream")

StreamTypeMixedCase == <<"Text/Event-Stream", ";", " ", "charset=utf-8">>

\* a flow whose response is None, and the responses of the upstream server
Responses ==
    {None,
     HttpResponse(<< >>, JsonType),
     HttpResponse(JsonResponseBody, JsonType),
     HttpResponse(NotJsonBody, JsonType),
     HttpResponse(NullBody, JsonType),
     HttpResponse(ListResponseBody, << >>),
     HttpResponse(StreamBody, JsonType),
     HttpResponse(StreamBody, StreamTypeMixedCase),
     HttpResponse(DoneOnlyBody, StreamType),
     HttpResponse(EmptyEventBody, StreamType),
     HttpResponse(MalformedStreamBody, StreamType),
     HttpResponse(JsonResponseBody, StreamType),
     HttpResponse(RaisingStreamBody, StreamType)}

RECURSIVE SeqsUpTo(_, _)
SeqsUpTo(X, n) ==
    IF n = 0 THEN {<< >>}
    ELSE SeqsUpTo(X, n - 1) \cup {Append(q, x) : q \in SeqsUpTo(X, n - 1), x \in X}

\* a flow before any hook has run on it
NewFlow == [request |-> None, response |-> None, metadata |-> << >>]

\* neither the parser nor the aggregator has been called on its own
NoDirectCalls ==
    /\ bodyLines = << >>
    /\ parsedEvents = << >>
    /\ streamEvents = << >>
    /\ aggregateResult = Returned(None)
    /\ registryCall = [endpoints |-> default_endpoint_registry, calls |-> << >>]

\* OpenAILogger(request_preprocessors = ...) and no traffic yet
Init ==
    /\ preprocessors \in SeqsUpTo(PreprocessorKinds, MaxPre)
    /\ flow = [f \in Flows |-> NewFlow]
    /\ files = << >>
    /\ calls = << >>
    /\ resolveCalls = [f \in Flows |-> << >>]
    /\ ppCalls = [f \in Flows |-> << >>]
    /\ ran = [f \in Flows |-> {}]
    /\ events = [f \in Flows |-> << >>]
    /\ raised = [f \in Flows |-> FALSE]
    /\ NoDirectCalls

\* the append_jsonl calls of one handler event, as entries of calls
CallEntries(f, appends) ==
    [i \in 1..Len(appends) |->
        [flow |-> f, event |-> Len(events[f]) + 1,
         path |-> appends[i][1], payload |-> appends[i][2]]]

\* the StorageRouter.resolve calls of one handler event, as entries of resolveCalls
ResolveEntries(f, resolved) ==
    [i \in 1..Len(resolved) |-> [event |-> Len(events[f]) + 1, paths |-> resolved[i]]]

\* the files after the append_jsonl calls of one handler event
RECURSIVE WriteAll(_, _, _)
WriteAll(fs, appends, ok) ==
    IF appends = << >> THEN fs
    ELSE WriteAll(append_jsonl(fs, Head(appends)[1], Head(appends)[2], ok), Tail(appends), ok)

\* whether append_jsonl succeeds is up to the file system
IoOutcomes(appends) == IF appends = << >> THEN {TRUE} ELSE BOOLEAN

\* a request handler that keeps the correlation state in one place for all exchanges
RequestDoneShared(f, fl, out) ==
    /\ flow' = [g \in DOMAIN flow |->
                   IF g = f THEN [fl EXCEPT !.metadata = out.metadata]
                   ELSE [flow[g] EXCEPT !.metadata = out.metadata]]
    /\ calls' = calls \o CallEntries(f, out.appends)
    /\ \E ok \in IoOutcomes(out.appends) : files' = WriteAll(files, out.appends, ok)
    /\ resolveCalls' = [resolveCalls EXCEPT ![f] = @ \o ResolveEntries(f, out.resolved)]
    /\ ppCalls' = [ppCalls EXCEPT ![f] = out.invoked]

\* a request handler that stores the correlation state only once the input
\* record is on disk
RequestDoneUnlessFailed(f, fl, out) ==
    /\ \E ok \in IoOutcomes(out.appends) :
           /\ files' = WriteAll(files, out.appends, ok)
           /\ flow' = [flow EXCEPT
                          ![f] = IF ok THEN [fl EXCEPT !.metadata = out.metadata] ELSE fl]
    /\ calls' = calls \o CallEntries(f, out.appends)
    /\ resolveCalls' = [resolveCalls EXCEPT ![f] = @ \o ResolveEntries(f, out.resolved)]
    /\ ppCalls' = [ppCalls EXCEPT ![f] = out.invoked]

\* the state after request(flow) has run on exchange f
RequestDone(f, fl, out) ==
    /\ flow' = [flow EXCEPT ![f] = [fl EXCEPT !.metadata = out.metadata]]
    /\ calls' = calls \o CallEntries(f, out.appends)
    /\ \E ok \in IoOutcomes(out.appends) : files' = WriteAll(files, out.appends, ok)
    /\ resolveCalls' = [resolveCalls EXCEPT ![f] = @ \o ResolveEntries(f, out.resolved)]
    /\ ppCalls' = [ppCalls EXCEPT ![f] = out.invoked]

\* the request hook: the transport hands the flow of a new exchange to request()
Request(f) ==
    /\ events[f] = << >>
    /\ \E req \in Requests :
         RequestDone(f, [flow[f] EXCEPT !.request = req],
                     request([flow[f] EXCEPT !.request = req], preprocessors))
    /\ events' = [events EXCEPT ![f] = Append(@, "request")]
    /\ UNCHANGED <<preprocessors, ran, raised, direct>>

\* a response handler that drops the correlation state once it has appended
ResponseDoneDiscarding(f, fl, out) ==
    /\ flow' = [flow EXCEPT
                   ![f] = IF out.appends = << >> THEN fl
                          ELSE [fl EXCEPT
                                   !.metadata =
                                       [k \in DOMAIN fl.metadata
                                               \ {REQUEST_METADATA_KEY, STORAGE_METADATA_KEY}
                                          |-> fl.metadata[k]]]]
    /\ calls' = calls \o CallEntries(f, out.appends)
    /\ \E ok \in IoOutcomes(out.appends) : files' = WriteAll(files, out.appends, ok)
    /\ resolveCalls' = [resolveCalls EXCEPT ![f] = @ \o ResolveEntries(f, out.resolved)]
    /\ ran' = [ran EXCEPT ![f] = out.ran]
    /\ raised' = [raised EXCEPT ![f] = @ \/ out.raised]

\* the state after response(flow) has run on exchange f
ResponseDone(f, fl, out) ==
    /\ flow' = [flow EXCEPT ![f] = fl]
    /\ calls' = calls \o CallEntries(f, out.appends)
    /\ \E ok \in IoOutcomes(out.appends) : files' = WriteAll(files, out.appends, ok)
    /\ resolveCalls' = [resolveCalls EXCEPT ![f] = @ \o ResolveEntries(f, out.resolved)]
    /\ ran' = [ran EXCEPT ![f] = out.ran]
    /\ raised' = [raised EXCEPT ![f] = @ \/ out.raised]

\* the response hook: the transport sets flow.response and calls response()
Response(f) ==
    /\ Len(events[f]) < MaxEvents
    /\ \E resp \in Responses :
         ResponseDone(f, [flow[f] EXCEPT !.response = resp],
                      response([flow[f] EXCEPT !.response = resp]))
    /\ events' = [events EXCEPT ![f] = Append(@, "response")]
    /\ UNCHANGED <<preprocessors, ppCalls, direct>>

\* between the hooks the transport or another addon may rewrite the request's
\* batch header
RewriteHeader(f) ==
    /\ events[f] # << >>
    /\ Len(events[f]) < MaxEvents
    /\ flow[f].request # None
    /\ \E h \in RewrittenHeaders :
         /\ h # flow[f].request.headers
         /\ flow' = [flow EXCEPT ![f].request.headers = h]
    /\ UNCHANGED <<preprocessors, files, calls, resolveCalls, ppCalls, ran, events, raised, direct>>

\* another component may overwrite the stored destination pair with a value that
\* is no StoragePaths
Tamper(f) ==
    /\ events[f] = <<"request">>
    /\ STORAGE_METADATA_KEY \in DOMAIN flow[f].metadata
    /\ IsStoragePaths(flow[f].metadata[STORAGE_METADATA_KEY])
    /\ flow' = [flow EXCEPT ![f].metadata[STORAGE_METADATA_KEY] = S("not paths")]
    /\ UNCHANGED <<preprocessors, files, calls, resolveCalls, ppCalls, ran, events, raised, direct>>

Next == \E f \in Flows : Request(f) \/ Response(f) \/ RewriteHeader(f)

\* the two handlers, driven by the hosting transport
Spec == Init /\ [][Next]_vars

NextEnv == \E f \in Flows : Request(f) \/ Response(f) \/ RewriteHeader(f) \/ Tamper(f)

\* the two handlers beside a component that breaks the metadata contract
SpecEnv == Init /\ [][NextEnv]_vars

----------------------------------------------------------------------------
(* Two exchanges in flight at once.  Both hooks are synchronous functions: the *)
(* transport runs one to its end before it starts the next, in any order.      *)

Exchanges == {"a", "b"}

\* the most handler events delivered for one of the two exchanges
MaxPairEvents == 2

\* accepted requests with different payloads, for one destination and for another
PairRequests ==
    {HttpRequest(K("POST"), ChatPath, ObjectBody, NoHeaders),
     HttpRequest(K("POST"), ChatPath, EmptyObjectBody, NoHeaders),
     HttpRequest(K("POST"), ChatPath, EmptyObjectBody, BatchHeader(<<".", ".", "/", "x">>))}

PairResponses ==
    {HttpResponse(JsonResponseBody, JsonType),
     HttpResponse(StreamBody, StreamTypeMixedCase)}

PairPreprocessors == {<< >>, <<"add_flag">>}

InitPair ==
    /\ preprocessors \in PairPreprocessors
    /\ flow = [f \in Exchanges |-> NewFlow]
    /\ files = << >>
    /\ calls = << >>
    /\ resolveCalls = [f \in Exchanges |-> << >>]
    /\ ppCalls = [f \in Exchanges |-> << >>]
    /\ ran = [f \in Exchanges |-> {}]
    /\ events = [f \in Exchanges |-> << >>]
    /\ raised = [f \in Exchanges |-> FALSE]
    /\ NoDirectCalls

PairRequest(f) ==
    /\ events[f] = << >>
    /\ \E req \in PairRequests :
         RequestDone(f, [flow[f] EXCEPT !.request = req],
                     request([flow[f] EXCEPT !.request = req], preprocessors))
    /\ events' = [events EXCEPT ![f] = Append(@, "request")]
    /\ UNCHANGED <<preprocessors, ran, raised, direct>>

PairResponse(f) ==
    /\ Len(events[f]) < MaxPairEvents
    /\ \E resp \in PairResponses :
         ResponseDone(f, [flow[f] EXCEPT !.response = resp],
                      response([flow[f] EXCEPT !.response = resp]))
    /\ events' = [events EXCEPT ![f] = Append(@, "response")]
    /\ UNCHANGED <<preprocessors, ppCalls, direct>>

NextPair == \E f \in Exchanges : PairRequest(f) \/ PairResponse(f)

\* the handlers called for two exchanges, their events interleaved
SpecPair == InitPair /\ [][NextPair]_vars

----------------------------------------------------------------------------
(* parse_sse_events called on bodies built line by line *)

\* the longest body, in lines
MaxLines == 3

\* the lines a body is built from: events with and without the space after the
\* prefix and with padding, the terminator plain and padded, a terminator followed
\* by more text, an empty payload, a payload that is no JSON, payloads that are
\* JSON but no object, a line of another field, a line that holds the prefix but
\* does not begin with it, and the blank line
SseLines ==
    {<<"data:", " ", "{", "\"", "id", "\"", ":", "\"", "e1", "\"", "}">>,
     <<" ", "data:", "{", "}", " ">>,
     <<"data:", " ", "[DONE]">>,
     <<" ", "data:", "[DONE]", " ">>,
     <<"data:", " ", "[DONE]", " ", "x">>,
     <<"data:", " ">>,
     <<"data:", " ", "not", " ", "json">>,
     <<"data:", " ", "[", "1", "]">>,
     <<"data:", " ", "null">>,
     <<"event:", " ", "ping">>,
     <<":", "data:", " ", "{", "}">>,
     << >>}

\* "\n".join(lines)
RECURSIVE JoinLines(_)
JoinLines(ls) ==
    IF ls = << >> THEN << >>
    ELSE IF Len(ls) = 1 THEN ls[1]
    ELSE ls[1] \o <<"\n">> \o JoinLines(Tail(ls))

\* a logger without preprocessors and without traffic, and the empty body parsed
InitSse ==
    /\ preprocessors = << >>
    /\ flow = [f \in Flows |-> NewFlow]
    /\ files = << >>
    /\ calls = << >>
    /\ resolveCalls = [f \in Flows |-> << >>]
    /\ ppCalls = [f \in Flows |-> << >>]
    /\ ran = [f \in Flows |-> {}]
    /\ events = [f \in Flows |-> << >>]
    /\ raised = [f \in Flows |-> FALSE]
    /\ bodyLines = << >>
    /\ parsedEvents = parse_sse_events(<< >>)
    /\ streamEvents = << >>
    /\ aggregateResult = Returned(None)
    /\ registryCall = [endpoints |-> default_endpoint_registry, calls |-> << >>]

\* parse_sse_events(body_text) for the body one line longer
ParseBody ==
    /\ Len(bodyLines) < MaxLines
    /\ \E line \in SseLines :
         /\ bodyLines' = Append(bodyLines, line)
         /\ parsedEvents' = parse_sse_events(JoinLines(Append(bodyLines, line)))
    /\ UNCHANGED <<logger, streamEvents, aggregateResult, registryCall>>

\* the parser called on every body of up to MaxLines lines
SpecSse == InitSse /\ [][ParseBody]_vars

----------------------------------------------------------------------------
(* aggregate_streamed_response called on streams built event by event *)

\* the longest stream, in events
MaxStream == 3

\* the events a stream is built from: content for choice 0; content for choices
\* 1 and 0 in one event; content under the index true; a null content; an entry
\* whose index is a str; an entry without delta; tool-call fragments for
\* position 0, for positions 1 and 0 in one event, and for position -1; an event
\* without choices; events with an id, created, model and object of their own;
\* events whose usage is an object, null or a number; deltas with a role, with a
\* null role and an empty content, and with an empty list of tool calls; entries
\* whose delta is no object, with and without a finish_reason; a finish_reason
\* under the index true; an entry without index followed by one whose tool-call
\* fragments have no index, a str as index, and the index 0; tool-call fragments
\* with an id, a type and a function.name for position 0; a second id and name
\* for position 0 beside a type for position 1 and an id without index and under
\* a str as index; an id and a name for position -1
StreamChunks ==
    LET Chunk(entries) == PyDict(K("choices") :> PyList(entries))
        Entry(index, delta) == PyDict((K("index") :> index) @@ (K("delta") :> PyDict(delta)))
        Content(index, content) == Entry(index, K("content") :> content)
        Fragment(index, arguments) ==
            PyDict((K("index") :> index)
                   @@ (K("function") :> PyDict(K("arguments") :> S(arguments))))
        Tools(index, fragments) == Entry(index, K("tool_calls") :> PyList(fragments))
        Call(index, fields) == PyDict((K("index") :> index) @@ fields)
    IN {Chunk(<<Content(PyInt(0), S("Hel"))>>),
        Chunk(<<Content(PyInt(1), S("x")), Content(PyInt(0), S("lo"))>>),
        Chunk(<<Content(PyBool(TRUE), S("b"))>>),
        Chunk(<<Content(PyInt(0), None)>>),
        Chunk(<<Content(S("0"), S("s"))>>),
        Chunk(<<PyDict((K("index") :> PyInt(1)) @@ (K("finish_reason") :> S("stop")))>>),
        Chunk(<<Tools(PyInt(0), <<Fragment(PyInt(0), "{")>>)>>),
        Chunk(<<Tools(PyInt(0), <<Fragment(PyInt(1), "a"), Fragment(PyInt(0), "}")>>)>>),
        Chunk(<<Tools(PyInt(0), <<Fragment(PyInt(0 - 1), "z")>>)>>),
        PyDict(K("id") :> S("c1")),
        PyDict((K("id") :> S("c2")) @@ (K("object") :> S("chat.completion.chunk"))
               @@ (K("created") :> PyInt(7)) @@ (K("model") :> S("m"))
               @@ (K("usage") :> PyDict(K("total_tokens") :> PyInt(1)))),
        PyDict((K("usage") :> PyDict(K("total_tokens") :> PyInt(2)))
               @@ (K("choices") :> PyList(<<Entry(PyInt(0), K("role") :> S("tool"))>>))),
        PyDict((K("usage") :> None)
               @@ (K("choices")
                     :> PyList(<<Entry(PyInt(0), (K("role") :> None)
                                                 @@ (K("content") :> PyStr(<< >>))
                                                 @@ (K("tool_calls") :> PyList(<< >>)))>>))),
        PyDict((K("usage") :> PyInt(7))
               @@ (K("choices")
                     :> PyList(<<PyDict((K("index") :> PyInt(1))
                                        @@ (K("finish_reason") :> None)
                                        @@ (K("delta") :> S("x"))),
                                 PyDict((K("index") :> PyInt(2))
                                        @@ (K("finish_reason") :> S("length"))
                                        @@ (K("delta") :> PyInt(7)))>>))),
        Chunk(<<PyDict((K("index") :> PyBool(TRUE)) @@ (K("finish_reason") :> S("length")))>>),
        Chunk(<<PyDict(K("delta") :> PyDict(K("content") :> S("m"))),
                Tools(PyInt(0),
                      <<PyDict(K("function") :> PyDict(K("arguments") :> S("q"))),
                        Fragment(S("1"), "r"),
                        Fragment(PyInt(0), "k")>>)>>),
        Chunk(<<Tools(PyInt(0),
                      <<Call(PyInt(0), (K("id") :> S("a")) @@ (K("type") :> S("function"))
                                       @@ (K("function") :> PyDict(K("name") :> S("f"))))>>)>>),
        Chunk(<<Tools(PyInt(0),
                      <<Call(PyInt(0), (K("id") :> S("b"))
                                       @@ (K("function")
                                             :> PyDict((K("name") :> S("g"))
                                                       @@ (K("arguments") :> S("h"))))),
                        Call(PyInt(1), K("type") :> S("t")),
                        PyDict(K("id") :> S("x")),
                        Call(S("0"), K("id") :> S("y"))>>)>>),
        Chunk(<<Tools(PyInt(0),
                      <<Call(PyInt(0 - 1), (K("id") :> S("w"))
                                           @@ (K("function") :> PyDict(K("name") :> S("n"))))>>)>>)}

\* a logger without preprocessors and without traffic, and the empty stream
\* aggregated
InitAgg ==
    /\ preprocessors = << >>
    /\ flow = [f \in Flows |-> NewFlow]
    /\ files = << >>
    /\ calls = << >>
    /\ resolveCalls = [f \in Flows |-> << >>]
    /\ ppCalls = [f \in Flows |-> << >>]
    /\ ran = [f \in Flows |-> {}]
    /\ events = [f \in Flows |-> << >>]
    /\ raised = [f \in Flows |-> FALSE]
    /\ bodyLines = << >>
    /\ parsedEvents = << >>
    /\ streamEvents = << >>
    /\ aggregateResult = aggregate_streamed_response(<< >>)
    /\ registryCall = [endpoints |-> default_endpoint_registry, calls |-> << >>]

\* aggregate_streamed_response(events) for the stream one event longer
AggregateStream ==
    /\ Len(streamEvents) < MaxStream
    /\ \E event \in StreamChunks :
         /\ streamEvents' = Append(streamEvents, event)
         /\ aggregateResult' = aggregate_streamed_response(Append(streamEvents, event))
    /\ UNCHANGED <<logger, bodyLines, parsedEvents, registryCall>>

\* the aggregator called on every stream of up to MaxStream events
SpecAgg == InitAgg /\ [][AggregateStream]_vars

----------------------------------------------------------------------------
(* EndpointRegistry.match and supports called on registries of several operations *)

\* the most operations a registry is built with
MaxEndpoints == 2

\* EndpointRegistry(endpoints), and no call made on it.  The operations
\* registered are chat completions, one with two suffixes, the first of which
\* also ends every chat completions path, and one without suffixes
InitMatch ==
    /\ preprocessors = << >>
    /\ flow = [f \in Flows |-> NewFlow]
    /\ files = << >>
    /\ calls = << >>
    /\ resolveCalls = [f \in Flows |-> << >>]
    /\ ppCalls = [f \in Flows |-> << >>]
    /\ ran = [f \in Flows |-> {}]
    /\ events = [f \in Flows |-> << >>]
    /\ raised = [f \in Flows |-> FALSE]
    /\ bodyLines = << >>
    /\ parsedEvents = << >>
    /\ streamEvents = << >>
    /\ aggregateResult = Returned(None)
    /\ \E endpoints \in SeqsUpTo(
               {[name |-> "chat.completions", suffixes |-> << <<"/chat", "/completions">> >>],
                [name |-> "completions",
                 suffixes |-> << <<"/completions">>, <<"/v1", "/embeddings">> >>],
                [name |-> "nothing", suffixes |-> << >>]},
               MaxEndpoints) :
           registryCall = [endpoints |-> endpoints, calls |-> << >>]

\* registry.match(path) and registry.supports(path) for one path: a supported
\* path bare, behind a routing prefix and before a query; a suffix inside the
\* query only; the second suffix of an operation; a suffix that is not at the
\* end; a second "?"; the empty path
MatchPath ==
    /\ registryCall.calls = << >>
    /\ \E path \in {<<"/v1", "/chat", "/completions">>,
                    <<"/proxy", "/v1", "/chat", "/completions">>,
                    <<"/v1", "/chat", "/completions", "?", "x=1">>,
                    <<"/other", "?", "/chat", "/completions">>,
                    <<"/v1", "/embeddings">>,
                    <<"/completions", "/v1">>,
                    <<"/completions", "?", "a", "?", "/chat", "/completions">>,
                    << >>} :
         registryCall' =
             [registryCall EXCEPT
                 !.calls = << [path |-> path,
                               match |-> MatchFrom(registryCall.endpoints,
                                                   _normalize_path(path)),
                               supports |-> MatchFrom(registryCall.endpoints,
                                                      _normalize_path(path)) # ""] >>]
    /\ UNCHANGED <<logger, bodyLines, parsedEvents, streamEvents, aggregateResult>>

\* match and supports called on every registry of up to MaxEndpoints operations
SpecMatch == InitMatch /\ [][MatchPath]_vars

----------------------------------------------------------------------------
(* StorageRouter.resolve called on its own.  The router reads one header of the *)
(* request and nothing else, so the flows differ in that header only: it is     *)
(* absent, empty, any short text over a few characters, or a text about as long *)
(* as the longest segment the sanitizer lets through.                           *)

\* the most characters of a short batch-header value
MaxHeader == 3

\* the characters of a batch-header value: a letter, a digit, the three
\* characters the sanitizer strips from both ends, a path separator, a blank and
\* a letter outside ASCII
HeaderChars == {"a", "9", ".", "-", "_", "/", " ", "é"}

\* n times the character c
Repeat(c, n) == [i \in 1..n |-> c]

\* the batch-header values: the short ones, and the ones of MaxSegment - 1 equal
\* characters between at most one character before and one after
HeaderValues ==
    SeqsUpTo(HeaderChars, MaxHeader)
    \cup {pre \o Repeat(c, MaxSegment - 1) \o suf :
             pre \in SeqsUpTo(HeaderChars, 1), suf \in SeqsUpTo(HeaderChars, 1),
             c \in HeaderChars}

\* a router over the data directory, and a flow whose request has no batch
\* header or one of the values
InitResolve ==
    /\ preprocessors = << >>
    /\ \E h \in {NoHeaders} \cup {BatchHeader(value) : value \in HeaderValues} :
           flow = [f \in Flows |->
                      [NewFlow EXCEPT !.request = HttpRequest(K("POST"), ChatPath,
                                                              ObjectBody, h)]]
    /\ files = << >>
    /\ calls = << >>
    /\ resolveCalls = [f \in Flows |-> << >>]
    /\ ppCalls = [f \in Flows |-> << >>]
    /\ ran = [f \in Flows |-> {}]
    /\ events = [f \in Flows |-> << >>]
    /\ raised = [f \in Flows |-> FALSE]
    /\ NoDirectCalls

\* StorageRouter.resolve(flow), the pair it returns kept in resolveCalls
ResolveFlow ==
    /\ \E f \in Flows :
           /\ resolveCalls[f] = << >>
           /\ resolveCalls' = [resolveCalls EXCEPT
                                  ![f] = ResolveEntries(f, <<resolve(flow[f])>>)]
    /\ UNCHANGED <<preprocessors, flow, files, calls, ppCalls, ran, events, raised, direct>>

\* the router called once on every flow
SpecResolve == InitResolve /\ [][ResolveFlow]_vars

----------------------------------------------------------------------------
(* What the claims speak of, stated on the inputs themselves *)

\* the methods that are POST (the handler compares the upper-cased method)
PostMethods == {K("POST"), K("post")}

\* the paths that end, before any "?", with /chat/completions
SupportedPaths ==
    {ChatPath, <<"/chat", "/completions">>, <<"/v1", "/chat", "/completions", "?", "x=1">>}

\* the request bodies that are JSON objects, and the object each denotes
ObjectBodies == {ObjectBody, EmptyObjectBody}

ObjectOf(body) == IF body = ObjectBody THEN PyDict(K("key") :> S("value")) ELSE EmptyDict

\* the response bodies that are JSON texts, and the value each denotes
JsonBodies == {JsonResponseBody, ListResponseBody, NullBody}

JsonValueOf(body) ==
    CASE body = JsonResponseBody -> PyDict(K("status") :> S("ok"))
      [] body = ListResponseBody -> PyList(<<PyInt(1)>>)
      [] OTHER -> None

\* the content types that hold the event-stream marker in some letter case
StreamTypes == {StreamType, StreamTypeMixedCase}

\* the event-stream bodies with no event before the terminator
EmptyStreamBodies == {DoneOnlyBody, MalformedStreamBody, JsonResponseBody}

\* some registered preprocessor returns no value
Vetoes == \E i \in 1..Len(preprocessors) : preprocessors[i] = "veto"

FirstVeto == CHOOSE i \in 1..Len(preprocessors) :
                 /\ preprocessors[i] = "veto"
                 /\ \A j \in 1..(i - 1) : preprocessors[j] # "veto"

\* p_i(...p_1(payload)...)
RECURSIVE Preprocessed(_, _, _)
Preprocessed(payload, fl, i) ==
    IF i = 0 THEN payload
    ELSE CallPreprocessor(preprocessors[i], Preprocessed(payload, fl, i - 1), fl)

\* the request hook has run on f
Requested(f) == events[f] # << >> /\ events[f][1] = "request"

\* f's request is a POST to a supported path with a JSON object as its body
Eligible(f) ==
    /\ Requested(f)
    /\ flow[f].request.method \in PostMethods
    /\ flow[f].request.path \in SupportedPaths
    /\ flow[f].request.body_text \in ObjectBodies

\* f's request is accepted for logging
Accepted(f) == Eligible(f) /\ ~Vetoes

\* the append_jsonl calls made for f in its n-th handler event
CallsAt(f, n) == {i \in 1..Len(calls) : calls[i].flow = f /\ calls[i].event = n}

\* the append_jsonl calls made for f by the response handler
OutputCalls(f) ==
    {i \in 1..Len(calls) : calls[i].flow = f /\ events[f][calls[i].event] = "response"}

\* f holds a payload and a StoragePaths pair as its correlation state
ValidCorrelation(f) ==
    /\ {REQUEST_METADATA_KEY, STORAGE_METADATA_KEY} \subseteq DOMAIN flow[f].metadata
    /\ IsStoragePaths(flow[f].metadata[STORAGE_METADATA_KEY])

\* the last event of f is a response event that got past the four early returns
Answered(f) ==
    /\ events[f] # << >>
    /\ events[f][Len(events[f])] = "response"
    /\ ValidCorrelation(f)
    /\ flow[f].response # None
    /\ flow[f].response.body_text # << >>

\* the calls of f's n-th event are one call, of this path and payload
OneCall(f, n, path, payload) ==
    /\ Cardinality(CallsAt(f, n)) = 1
    /\ \A i \in CallsAt(f, n) : calls[i].path = path /\ calls[i].payload = payload

----------------------------------------------------------------------------
(* The claims *)

\* C1: an accepted request followed by one non-streamed response whose body is
\* JSON text gives exactly one input record, equal to the preprocessed request
\* payload, and exactly one output record, equal to the value the response body
\* denotes, in the input and the output destination of the pair resolved for the
\* exchange.
C1_OneRecordEach ==
    \A f \in Flows :
        ( /\ events[f] = <<"request", "response">>
          /\ Accepted(f)
          /\ flow[f].response # None
          /\ ContentType(flow[f].response) \notin StreamTypes
          /\ flow[f].response.body_text \in JsonBodies )
        => /\ Len(resolveCalls[f]) = 1
           /\ OneCall(f, 1, resolveCalls[f][1].paths.input_path,
                      Preprocessed(ObjectOf(flow[f].request.body_text), flow[f],
                                   Len(preprocessors)))
           /\ OneCall(f, 2, resolveCalls[f][1].paths.output_path,
                      JsonValueOf(flow[f].response.body_text))

\* C2: the Storage Resolver is called once for an accepted exchange and never for
\* another one, always in the request event, and every output record goes to the
\* output destination of the pair that call returned.
C2_ResolvedOnceAtRequest ==
    \A f \in Flows :
        /\ Len(resolveCalls[f]) = (IF Accepted(f) THEN 1 ELSE 0)
        /\ \A i \in 1..Len(resolveCalls[f]) :
               resolveCalls[f][i].event = 1 /\ events[f][1] = "request"
        /\ \A i \in OutputCalls(f) :
               /\ Len(resolveCalls[f]) >= 1
               /\ calls[i].path = resolveCalls[f][1].paths.output_path

\* an output record was written although resolving again would give another pair
C2_Witness ==
    \E f \in Flows :
        /\ OutputCalls(f) # {}
        /\ Len(resolveCalls[f]) = 1
        /\ resolve(flow[f]) # resolveCalls[f][1].paths

\* C3: a request whose method is not POST (in any letter case) or whose path
\* matches no supported operation appends nothing, stores neither the payload nor
\* the destination pair, and the Storage Resolver is not called.
C3_SkipsMethodAndPath ==
    \A f \in Flows :
        ( /\ Requested(f)
          /\ \/ flow[f].request.method \notin PostMethods
             \/ flow[f].request.path \notin SupportedPaths )
        => /\ CallsAt(f, 1) = {}
           /\ DOMAIN flow[f].metadata = {}
           /\ resolveCalls[f] = << >>

\* a POST whose path has /chat/completions only in its query string was handled
C3_Witness ==
    \E f \in Flows :
        /\ Requested(f)
        /\ flow[f].request.method = K("POST")
        /\ flow[f].request.path = <<"/other", "?", "q=", "/chat", "/completions">>
        /\ flow[f].request.body_text = ObjectBody

\* C4: a POST to a supported path whose body is empty, is no JSON text, or is a
\* JSON value other than an object appends nothing, stores no correlation state
\* and does not raise.
C4_SkipsBadBody ==
    \A f \in Flows :
        ( /\ Requested(f)
          /\ flow[f].request.method \in PostMethods
          /\ flow[f].request.path \in SupportedPaths
          /\ flow[f].request.body_text \in {<< >>, NotJsonBody, ListBody, NullBody} )
        => /\ CallsAt(f, 1) = {}
           /\ DOMAIN flow[f].metadata = {}
           /\ ~raised[f]

\* a POST to a supported path with a JSON list as its body was handled
C4_Witness ==
    \E f \in Flows :
        /\ Requested(f)
        /\ flow[f].request.method = K("POST")
        /\ flow[f].request.path = ChatPath
        /\ flow[f].request.body_text = ListBody

\* C5: when a preprocessor returns no value, the preprocessors after it are not
\* invoked, the Storage Resolver is not called, nothing is stored, and neither the
\* request nor a later response appends a record.
C5_VetoAbandons ==
    \A f \in Flows :
        (Eligible(f) /\ Vetoes)
        => /\ ppCalls[f] = [i \in 1..FirstVeto |-> i]
           /\ resolveCalls[f] = << >>
           /\ DOMAIN flow[f].metadata = {}
           /\ \A i \in 1..Len(calls) : calls[i].flow # f

\* a veto with a preprocessor registered after it, and a JSON response later
C5_Witness ==
    \E f \in Flows :
        /\ Eligible(f)
        /\ preprocessors = <<"veto", "add_flag">>
        /\ events[f] = <<"request", "response">>
        /\ flow[f].response = HttpResponse(JsonResponseBody, JsonType)

\* C6: without a veto every preprocessor is invoked once, in registration order,
\* and the value appended to the input destination, which is also the stored
\* payload, is p_n(...p_1(parsed body)...).
C6_PreprocessorsChain ==
    \A f \in Flows :
        Accepted(f)
        => /\ ppCalls[f] = [i \in 1..Len(preprocessors) |-> i]
           /\ Len(resolveCalls[f]) >= 1
           /\ OneCall(f, 1, resolveCalls[f][1].paths.input_path,
                      Preprocessed(ObjectOf(flow[f].request.body_text), flow[f],
                                   Len(preprocessors)))
           /\ REQUEST_METADATA_KEY \in DOMAIN flow[f].metadata
           /\ flow[f].metadata[REQUEST_METADATA_KEY]
                  = Preprocessed(ObjectOf(flow[f].request.body_text), flow[f],
                                 Len(preprocessors))

\* two preprocessors that do not commute ran on an accepted request
C6_Witness ==
    \E f \in Flows :
        /\ Accepted(f)
        /\ preprocessors = <<"wrap", "add_flag">>
        /\ flow[f].request.body_text = ObjectBody
        /\ CallsAt(f, 1) # {}

\* C7: the response handler does nothing, and does not raise, when the exchange
\* has no stored payload, has no response, has a stored destination value that is
\* missing or is not a StoragePaths pair, or has an empty response body.
C7_ResponseSkipsSilently ==
    [][\A f \in Flows :
           ( /\ events'[f] = Append(events[f], "response")
             /\ \/ REQUEST_METADATA_KEY \notin DOMAIN flow[f].metadata
                \/ flow'[f].response = None
                \/ STORAGE_METADATA_KEY \notin DOMAIN flow[f].metadata
                \/ flow[f].metadata[STORAGE_METADATA_KEY] = S("not paths")
                \/ flow'[f].response.body_text = << >> )
           => /\ calls' = calls
              /\ files' = files
              /\ raised'[f] = raised[f]
              /\ flow'[f].metadata = flow[f].metadata]_vars

\* a JSON response was handled while the stored destination was not a pair
C7_Witness ==
    \E f \in Flows :
        /\ events[f] = <<"request", "response">>
        /\ STORAGE_METADATA_KEY \in DOMAIN flow[f].metadata
        /\ flow[f].metadata[STORAGE_METADATA_KEY] = S("not paths")
        /\ flow[f].response = HttpResponse(JsonResponseBody, JsonType)
        /\ Len(calls) = 1
        /\ ~raised[f]

\* C8: past the early returns, a response whose content type has no event-stream
\* marker appends one record, the value its body denotes, to the stored output
\* destination when the body is JSON text, and appends nothing otherwise.
C8_JsonAppendedIffParses ==
    \A f \in Flows :
        (Answered(f) /\ ContentType(flow[f].response) \notin StreamTypes)
        => IF flow[f].response.body_text \in JsonBodies
           THEN OneCall(f, Len(events[f]),
                        flow[f].metadata[STORAGE_METADATA_KEY].output_path,
                        JsonValueOf(flow[f].response.body_text))
           ELSE CallsAt(f, Len(events[f])) = {}

\* C9: past the early returns, a content type holding text/event-stream in any
\* letter case sends the body through the event parser and the aggregator, and
\* any record appended is the aggregate, never the body read as JSON; every other
\* content type sends the body through the JSON reader alone.
C9_BranchByContentType ==
    \A f \in Flows :
        Answered(f)
        => IF ContentType(flow[f].response) \in StreamTypes
           THEN /\ ran[f] = {"parse_sse_events", "aggregate_streamed_response"}
                /\ \A i \in CallsAt(f, Len(events[f])) :
                       /\ calls[i].payload
                              = aggregate_streamed_response(
                                    parse_sse_events(flow[f].response.body_text)).val
                       /\ calls[i].payload # read_json(flow[f].response.body_text)
           ELSE ran[f] = {"read_json"}

\* a stream whose content type spells the marker in mixed case was aggregated
C9_Witness ==
    \E f \in Flows :
        /\ Answered(f)
        /\ flow[f].response = HttpResponse(StreamBody, StreamTypeMixedCase)
        /\ CallsAt(f, Len(events[f])) # {}

\* C10: the aggregator gives the no-content result exactly for the empty event
\* sequence, and an event-stream response whose parsed event sequence is empty
\* appends nothing.
C10_NoEventsNoRecord ==
    \A f \in Flows :
        (Answered(f) /\ ContentType(flow[f].response) \in StreamTypes)
        => LET evs == parse_sse_events(flow[f].response.body_text) IN
           /\ (aggregate_streamed_response(evs) = Returned(None)) <=> (evs = << >>)
           /\ (flow[f].response.body_text \in EmptyStreamBodies) => (evs = << >>)
           /\ (evs = << >>) => (CallsAt(f, Len(events[f])) = {})

\* a stream holding only a malformed event was handled
C10_Witness ==
    \E f \in Flows :
        /\ Answered(f)
        /\ flow[f].response = HttpResponse(MalformedStreamBody, StreamType)

\* the append_jsonl calls made for f by the request handler
InputCalls(f) ==
    {i \in 1..Len(calls) : calls[i].flow = f /\ events[f][calls[i].event] = "request"}

\* C11: whatever request and response events are delivered for an exchange, a
\* response event more than once included, at most one input record and at most
\* one output record are appended for it.
C11_OncePerExchange ==
    \A f \in Flows :
        /\ Cardinality(InputCalls(f)) <= 1
        /\ Cardinality(OutputCalls(f)) <= 1

\* C12: neither handler ever ends by raising, whatever the request and whatever
\* the response body, an event-stream body of arbitrary JSON objects included.
C12_NeverRaises == \A f \in Flows : ~raised[f]

\* the append_jsonl calls made for exchange f, in order
CallsOf(f) == SelectSeq(calls, LAMBDA c : c.flow = f)

\* the append_jsonl calls made on one path, in order
CallsTo(path) == SelectSeq(calls, LAMBDA c : c.path = path)

\* the destination pair a request resolves to, read off its batch header
PairOf(req) ==
    IF req.headers = NoHeaders
    THEN StoragePaths(<<K("data"), K("input.jsonl")>>, <<K("data"), K("output.jsonl")>>)
    ELSE StoragePaths(<<K("data"), K("requests"), K("x"), K("input.jsonl")>>,
                      <<K("data"), K("requests"), K("x"), K("output.jsonl")>>)

\* the record a response of the two-exchange runs is logged as
RecordOf(resp) ==
    IF resp.body_text = JsonResponseBody THEN PyDict(K("status") :> S("ok"))
    ELSE aggregate_streamed_response(parse_sse_events(resp.body_text)).val

\* the calls a step adds to those of f
NewCallsOf(f) == SubSeq(CallsOf(f)', Len(CallsOf(f)) + 1, Len(CallsOf(f)'))

\* C13: with two exchanges in flight and their events interleaved in any order,
\* an event of one exchange changes neither the flow, the correlation state nor
\* the records of the other, and the output record a response event of A appends
\* is the one A's response body denotes, in the output destination of the pair
\* resolved from A's request.
C13_ExchangesIsolated ==
    [][\A f \in Exchanges :
           /\ (events'[f] = events[f])
              => /\ flow'[f] = flow[f]
                 /\ CallsOf(f)' = CallsOf(f)
                 /\ resolveCalls'[f] = resolveCalls[f]
                 /\ ppCalls'[f] = ppCalls[f]
                 /\ raised'[f] = raised[f]
           /\ (events'[f] = Append(events[f], "response"))
              => /\ flow'[f].metadata = flow[f].metadata
                 /\ \A i \in 1..Len(NewCallsOf(f)) :
                        /\ flow[f].request # None
                        /\ NewCallsOf(f)[i].path = PairOf(flow[f].request).output_path
                        /\ NewCallsOf(f)[i].payload = RecordOf(flow'[f].response)]_vars

\* the requests of a and b were both accepted before either response came, and
\* the two responses, with different bodies, were logged to one destination, b's
\* before a's
C13_Witness ==
    /\ Len(calls) = 4
    /\ calls[1].flow = "a" /\ calls[2].flow = "b" /\ calls[3].flow = "b" /\ calls[4].flow = "a"
    /\ calls[3].path = calls[4].path
    /\ calls[3].payload # calls[4].payload
    /\ calls[1].payload # calls[2].payload

\* bytes is made of whole lines, each the record of one of the calls cs and its
\* line end, in the order of the calls
RECURSIVE WholeLines(_, _)
WholeLines(bytes, cs) ==
    IF bytes = << >> THEN TRUE
    ELSE IF cs = << >> THEN FALSE
    ELSE LET line == Dumps(Head(cs).payload) \o <<"\n">> IN
         \/ /\ Len(line) <= Len(bytes)
            /\ SubSeq(bytes, 1, Len(line)) = line
            /\ WholeLines(SubSeq(bytes, Len(line) + 1, Len(bytes)), Tail(cs))
         \/ WholeLines(bytes, Tail(cs))

InputFailed(f) ==
    \E i \in InputCalls(f) : FileBytes(files, calls[i].path) = << >>

\* the last event of f is a response event carrying response resp
LastResponse(f, resp) ==
    /\ events[f][Len(events[f])] = "response"
    /\ flow[f].response = resp

\* C15: a failed append is not an error of the handler, and when the input append
\* of an accepted request fails, the payload and the destination pair are stored
\* on the exchange all the same, so that a later response is handled and its
\* output append made, to the stored output destination.
C15_StorageFailureContained ==
    \A f \in Flows :
        /\ (Len(events[f]) <= 2 /\ CallsAt(f, Len(events[f])) # {}) => ~raised[f]
        /\ (Accepted(f) /\ InputFailed(f))
           => /\ ValidCorrelation(f)
              /\ flow[f].metadata[REQUEST_METADATA_KEY]
                     = Preprocessed(ObjectOf(flow[f].request.body_text), flow[f],
                                    Len(preprocessors))
              /\ flow[f].metadata[STORAGE_METADATA_KEY] = resolveCalls[f][1].paths
              /\ \A body \in {JsonResponseBody, ListResponseBody} :
                     LastResponse(f, HttpResponse(body, JsonType))
                     => OneCall(f, Len(events[f]), resolveCalls[f][1].paths.output_path,
                                JsonValueOf(body))
              /\ \A type \in StreamTypes :
                     LastResponse(f, HttpResponse(StreamBody, type))
                     => OneCall(f, Len(events[f]), resolveCalls[f][1].paths.output_path,
                                aggregate_streamed_response(parse_sse_events(StreamBody)).val)

\* the input append failed, and the JSON response that followed was written to
\* the output file
C15_Witness ==
    \E f \in Flows :
        /\ Accepted(f)
        /\ InputFailed(f)
        /\ events[f] = <<"request", "response">>
        /\ flow[f].response = HttpResponse(JsonResponseBody, JsonType)
        /\ \E i \in OutputCalls(f) :
               FileBytes(files, calls[i].path) = Dumps(calls[i].payload) \o <<"\n">>

\* the lines that are a data line whose payload is [DONE]
TerminatorLines == {<<"data:", " ", "[DONE]">>, <<" ", "data:", "[DONE]", " ">>}

\* the lines that are a data line whose payload is a JSON object, with the object
ObjectLines ==
    {<< <<"data:", " ", "{", "\"", "id", "\"", ":", "\"", "e1", "\"", "}">>,
        PyDict(K("id") :> S("e1")) >>,
     << <<" ", "data:", "{", "}", " ">>, EmptyDict >>}

\* the position of the first terminator line, beyond the last line when there is none
FirstTerminator(ls) ==
    IF \E k \in 1..Len(ls) : ls[k] \in TerminatorLines
    THEN CHOOSE k \in 1..Len(ls) :
             /\ ls[k] \in TerminatorLines
             /\ \A j \in 1..(k - 1) : ls[j] \notin TerminatorLines
    ELSE Len(ls) + 1

\* the objects of the object lines among ls, in line order
RECURSIVE ObjectsOf(_)
ObjectsOf(ls) ==
    IF ls = << >> THEN << >>
    ELSE (IF \E p \in ObjectLines : p[1] = Head(ls)
          THEN <<(CHOOSE p \in ObjectLines : p[1] = Head(ls))[2]>>
          ELSE << >>) \o ObjectsOf(Tail(ls))

\* C16: whatever lines follow a terminator line, well-formed data lines included,
\* the parser returns what it returns for the lines before that terminator alone.
C16_TerminatorAuthoritative ==
    \A k \in 1..Len(bodyLines) :
        bodyLines[k] \in TerminatorLines
        => parsedEvents = parse_sse_events(JoinLines(SubSeq(bodyLines, 1, k - 1)))

\* an event, the terminator and a further well-formed event were parsed into the
\* first event alone
C16_Witness ==
    /\ Len(bodyLines) = 3
    /\ bodyLines[2] = <<"data:", " ", "[DONE]">>
    /\ \E p \in ObjectLines : bodyLines[3] = p[1]
    /\ parsedEvents = <<PyDict(K("id") :> S("e1"))>>

\* C17: the parser returns, in line order, the objects of the data lines before
\* the first terminator whose payload is a JSON object, and nothing else; every
\* other line drops out alone; without a terminator all lines are read; the empty
\* body gives the empty sequence.
C17_ExactlyTheObjectLines ==
    /\ parsedEvents = ObjectsOf(SubSeq(bodyLines, 1, FirstTerminator(bodyLines) - 1))
    /\ bodyLines = << >> => parsedEvents = << >>

\* a body without terminator, with a malformed line between two events, was
\* parsed into the two events
C17_Witness ==
    /\ bodyLines = << <<"data:", " ", "{", "\"", "id", "\"", ":", "\"", "e1", "\"", "}">>,
                      <<"data:", " ", "not", " ", "json">>,
                      <<" ", "data:", "{", "}", " ">> >>
    /\ parsedEvents = <<PyDict(K("id") :> S("e1")), EmptyDict>>

\* the choices entries of a stream, in arrival order
RECURSIVE EntriesOf(_)
EntriesOf(evs) ==
    IF evs = << >> THEN << >>
    ELSE Get(Head(evs), K("choices"), PyList(<< >>)).v \o EntriesOf(Tail(evs))

\* a and b are the same JSON value
SameJson(a, b) == a.t = b.t /\ a = b

\* the index of an entry or fragment is the JSON integer or other value index
HasIndex(entry, index) ==
    Has(entry, K("index")) /\ SameJson(entry.v[K("index")], index)

\* the delta of a choices entry when it is an object, the empty object otherwise
DeltaOf(entry) ==
    IF Has(entry, K("delta")) /\ IsDict(entry.v[K("delta")]) THEN entry.v[K("delta")]
    ELSE EmptyDict

\* the text of the non-null delta.content of the entries with this index, in order
RECURSIVE ContentFor(_, _)
ContentFor(entries, index) ==
    IF entries = << >> THEN << >>
    ELSE LET delta == DeltaOf(Head(entries)) IN
         (IF HasIndex(Head(entries), index) /\ Has(delta, K("content"))
             /\ ~IsNone(delta.v[K("content")])
          THEN delta.v[K("content")].v
          ELSE << >>) \o ContentFor(Tail(entries), index)

\* the aggregation returned a result
Aggregated == ~aggregateResult.raised /\ ~IsNone(aggregateResult.val)

\* the choices of the result
ResultChoices == aggregateResult.val.v[K("choices")].v

\* the text a content or arguments value stands for, none standing for no text
TextOf(x) == IF IsNone(x) THEN << >> ELSE x.v

\* the entries of the stream whose index is a JSON integer
IntegerEntries ==
    {k \in 1..Len(EntriesOf(streamEvents)) :
        /\ Has(EntriesOf(streamEvents)[k], K("index"))
        /\ EntriesOf(streamEvents)[k].v[K("index")].t = "int"}

\* C18: in the result, the content of the choice with index i (null standing
\* for the empty text) is the concatenation, in arrival order, of the non-null
\* delta.content of the choices entries with index i and of no other entry, and
\* every integer index with an entry has its choice.
C18_ContentConcatenated ==
    Aggregated
    => /\ \A n \in 1..Len(ResultChoices) :
              TextOf(ResultChoices[n].v[K("message")].v[K("content")])
                  = ContentFor(EntriesOf(streamEvents), ResultChoices[n].v[K("index")])
       /\ \A k \in IntegerEntries :
              \E n \in 1..Len(ResultChoices) :
                  HasIndex(ResultChoices[n], EntriesOf(streamEvents)[k].v[K("index")])

\* C19: the choices of the result are in strictly ascending order of index, and
\* they are one choice for each integer index that a choices entry of the stream
\* carries, and no other choice.
C19_ChoicesAscending ==
    Aggregated
    => /\ \A n \in 1..(Len(ResultChoices) - 1) :
              IntOf(ResultChoices[n].v[K("index")]) < IntOf(ResultChoices[n + 1].v[K("index")])
       /\ \A n \in 1..Len(ResultChoices) :
              \E k \in IntegerEntries :
                  HasIndex(ResultChoices[n], EntriesOf(streamEvents)[k].v[K("index")])
       /\ \A k \in IntegerEntries :
              Cardinality({n \in 1..Len(ResultChoices) :
                              HasIndex(ResultChoices[n],
                                       EntriesOf(streamEvents)[k].v[K("index")])}) = 1

\* the text of the function.arguments of the fragments with index p, in order
RECURSIVE FragmentsFor(_, _)
FragmentsFor(fragments, p) ==
    IF fragments = << >> THEN << >>
    ELSE LET function == Get(Head(fragments), K("function"), EmptyDict) IN
         (IF HasIndex(Head(fragments), PyInt(p)) /\ Has(function, K("arguments"))
          THEN function.v[K("arguments")].v
          ELSE << >>) \o FragmentsFor(Tail(fragments), p)

\* the text of the arguments delivered for position p of the choice with this
\* index, in arrival order
RECURSIVE ArgumentsFor(_, _, _)
ArgumentsFor(entries, index, p) ==
    IF entries = << >> THEN << >>
    ELSE LET delta == DeltaOf(Head(entries)) IN
         (IF HasIndex(Head(entries), index)
          THEN FragmentsFor(Get(delta, K("tool_calls"), PyList(<< >>)).v, p)
          ELSE << >>) \o ArgumentsFor(Tail(entries), index, p)

\* the tool calls of the n-th choice of the result
ResultTools(n) == Get(ResultChoices[n].v[K("message")], K("tool_calls"), PyList(<< >>)).v

\* C20: in the result, the function.arguments at tool-call position p of a choice
\* (absent standing for the empty text) is the concatenation, in arrival order,
\* of the function.arguments of the fragments delivered for position p of that
\* choice, and of no fragment delivered for another position.
C20_ArgumentsConcatenated ==
    Aggregated
    => \A n \in 1..Len(ResultChoices) :
           \A p \in 0..(Len(ResultTools(n)) - 1) :
               TextOf(Get(Get(ResultTools(n)[p + 1], K("function"), EmptyDict),
                          K("arguments"), None))
                   = ArgumentsFor(EntriesOf(streamEvents), ResultChoices[n].v[K("index")], p)

\* the usage values of the stream that are JSON objects, in arrival order
RECURSIVE UsageObjects(_)
UsageObjects(evs) ==
    IF evs = << >> THEN << >>
    ELSE (IF Has(Head(evs), K("usage")) /\ Head(evs).v[K("usage")].t = "dict"
          THEN <<Head(evs).v[K("usage")]>>
          ELSE << >>) \o UsageObjects(Tail(evs))

\* C21: the result has a usage field exactly when some event of the stream has
\* a usage that is a JSON object, and the field is then the usage of the last
\* such event; an absent, null or other usage changes nothing.
C21_LastUsageObject ==
    Aggregated
    => IF UsageObjects(streamEvents) = << >>
       THEN ~Has(aggregateResult.val, K("usage"))
       ELSE /\ Has(aggregateResult.val, K("usage"))
            /\ aggregateResult.val.v[K("usage")]
                   = UsageObjects(streamEvents)[Len(UsageObjects(streamEvents))]

\* two usage objects and then a usage that is a number were aggregated, and the
\* result has the second object
C21_Witness ==
    /\ Aggregated
    /\ Len(streamEvents) = 3
    /\ Len(UsageObjects(streamEvents)) = 2
    /\ UsageObjects(streamEvents)[1] # UsageObjects(streamEvents)[2]
    /\ Has(streamEvents[3], K("usage"))
    /\ streamEvents[3].v[K("usage")] = PyInt(7)
    /\ aggregateResult.val.v[K("usage")] = PyDict(K("total_tokens") :> PyInt(2))

\* C22: for a stream that is not empty, the aggregation, when it returns, returns
\* a result, and the id, created and model of the result
\* are those of the first event, null where the first event has none, and the
\* object of the result is chat.completion.
C22_SeededFromFirstEvent ==
    (streamEvents # << >> /\ ~aggregateResult.raised)
    => /\ Aggregated
       /\ \A field \in {"id", "created", "model"} :
              /\ Has(aggregateResult.val, K(field))
              /\ LET seeded == aggregateResult.val.v[K(field)] IN
                 IF Has(streamEvents[1], K(field))
                 THEN SameJson(seeded, streamEvents[1].v[K(field)])
                 ELSE IsNone(seeded)
       /\ aggregateResult.val.v[K("object")] = S("chat.completion")

\* the first event had no id, a later one had an id, a model and an object of
\* its own, and the result has none of them
C22_Witness ==
    /\ Aggregated
    /\ Len(streamEvents) >= 2
    /\ ~Has(streamEvents[1], K("id"))
    /\ \E n \in 2..Len(streamEvents) :
           /\ Has(streamEvents[n], K("object"))
           /\ streamEvents[n].v[K("id")] = S("c2")
    /\ IsNone(aggregateResult.val.v[K("id")])
    /\ IsNone(aggregateResult.val.v[K("model")])

\* the path up to its first "?"
BeforeQuery(path) ==
    IF \E i \in 1..Len(path) : path[i] = "?"
    THEN SubSeq(path, 1, (CHOOSE i \in 1..Len(path) :
                              path[i] = "?" /\ \A j \in 1..(i - 1) : path[j] # "?") - 1)
    ELSE path

\* the positions of the operations that have a suffix the text ends with
Matching(endpoints, text) ==
    {n \in 1..Len(endpoints) :
        \E i \in 1..Len(endpoints[n].suffixes) :
            \E front \in 0..Len(text) :
                SubSeq(text, front + 1, Len(text)) = endpoints[n].suffixes[i]}

\* C24: match returns the operation registered first among those that have a
\* suffix which ends the path cut before its first "?", and none when there is
\* no such operation; supports is true exactly when match returns an operation.
C24_FirstSuffixMatch ==
    \A c \in 1..Len(registryCall.calls) :
        LET hits == Matching(registryCall.endpoints, BeforeQuery(registryCall.calls[c].path)) IN
        /\ registryCall.calls[c].match
               = (IF hits = {} THEN ""
                  ELSE registryCall.endpoints[CHOOSE n \in hits : \A m \in hits : n <= m].name)
        /\ registryCall.calls[c].supports <=> (hits # {})

\* a path with a routing prefix and a query was matched to the first of two
\* operations that both have a suffix ending it
C24_Witness ==
    /\ Len(registryCall.endpoints) = 2
    /\ registryCall.endpoints[1].name = "completions"
    /\ registryCall.endpoints[2].name = "chat.completions"
    /\ Len(registryCall.calls) = 1
    /\ registryCall.calls[1].path = <<"/v1", "/chat", "/completions", "?", "x=1">>
    /\ registryCall.calls[1].match = "completions"
    /\ registryCall.calls[1].supports

\* C25: once the response handler has processed a response of an exchange and
\* appended its record, the exchange holds neither the stored payload nor the
\* stored destination pair.
C25_CorrelationDiscarded ==
    \A f \in Flows :
        OutputCalls(f) # {}
        => /\ REQUEST_METADATA_KEY \notin DOMAIN flow[f].metadata
           /\ STORAGE_METADATA_KEY \notin DOMAIN flow[f].metadata

\* the non-null delta.role values of the entries with this index, in order
RECURSIVE RolesFor(_, _)
RolesFor(entries, index) ==
    IF entries = << >> THEN << >>
    ELSE (IF HasIndex(Head(entries), index) /\ Has(DeltaOf(Head(entries)), K("role"))
             /\ ~IsNone(DeltaOf(Head(entries)).v[K("role")])
          THEN <<DeltaOf(Head(entries)).v[K("role")]>>
          ELSE << >>) \o RolesFor(Tail(entries), index)

\* the last of the values, or the default when there is none
LastOr(values, default) == IF values = << >> THEN default ELSE values[Len(values)]

\* C26: in the result, the role of the choice with index i is the last non-null
\* delta.role of the choices entries with index i, a later null role erasing
\* nothing, and is assistant when no entry gave a non-null role.
C26_LastNonNullRole ==
    Aggregated
    => \A n \in 1..Len(ResultChoices) :
           ResultChoices[n].v[K("message")].v[K("role")]
               = LastOr(RolesFor(EntriesOf(streamEvents), ResultChoices[n].v[K("index")]),
                        S("assistant"))

\* the non-null finish_reason values of the entries with this index, in order
RECURSIVE FinishReasonsFor(_, _)
FinishReasonsFor(entries, index) ==
    IF entries = << >> THEN << >>
    ELSE (IF HasIndex(Head(entries), index) /\ Has(Head(entries), K("finish_reason"))
             /\ ~IsNone(Head(entries).v[K("finish_reason")])
          THEN <<Head(entries).v[K("finish_reason")]>>
          ELSE << >>) \o FinishReasonsFor(Tail(entries), index)

\* the entries with this index all lack a delta that is an object
OnlyWithoutDelta(entries, index) ==
    \A k \in 1..Len(entries) :
        HasIndex(entries[k], index)
        => ~(Has(entries[k], K("delta")) /\ IsDict(entries[k].v[K("delta")]))

\* C27: in the result, the finish_reason of the choice with index i is the last
\* non-null finish_reason of the choices entries with index i, null when there
\* is none, a later null resetting nothing; an entry without delta, or with a
\* delta that is no object, has its choice in the result all the same, and a
\* choice that only such entries made has the default role, no content and no
\* tool calls.
C27_LastNonNullFinishReason ==
    Aggregated
    => /\ \A n \in 1..Len(ResultChoices) :
              /\ ResultChoices[n].v[K("finish_reason")]
                     = LastOr(FinishReasonsFor(EntriesOf(streamEvents),
                                               ResultChoices[n].v[K("index")]),
                              None)
              /\ OnlyWithoutDelta(EntriesOf(streamEvents), ResultChoices[n].v[K("index")])
                 => ResultChoices[n].v[K("message")]
                        = PyDict((K("role") :> S("assistant")) @@ (K("content") :> None))
       /\ \A k \in IntegerEntries :
              \E n \in 1..Len(ResultChoices) :
                  HasIndex(ResultChoices[n], EntriesOf(streamEvents)[k].v[K("index")])

\* a and b are the same key of choices_state: integers or booleans of equal value
SameKey(a, b) == IsInt(a) /\ IsInt(b) /\ IntOf(a) = IntOf(b)

\* the entries the aggregator accumulates under the key of this index
AccumulatedEntries(index) ==
    SelectSeq(EntriesOf(streamEvents),
              LAMBDA e : Has(e, K("index")) /\ SameKey(e.v[K("index")], index))

\* the content accumulated from these entries
RECURSIVE Accumulated(_)
Accumulated(entries) ==
    IF entries = << >> THEN << >>
    ELSE (IF Has(DeltaOf(Head(entries)), K("content"))
             /\ ~IsNone(DeltaOf(Head(entries)).v[K("content")])
          THEN DeltaOf(Head(entries)).v[K("content")].v
          ELSE << >>) \o Accumulated(Tail(entries))

\* some entry among these carries a tool-call fragment with an integer index
HasAccumulator(entries) ==
    \E k \in 1..Len(entries) :
        LET fragments == Get(DeltaOf(entries[k]), K("tool_calls"), PyList(<< >>)).v IN
        \E j \in 1..Len(fragments) :
            Has(fragments[j], K("index")) /\ IsInt(fragments[j].v[K("index")])

\* C28: in every choice of a result, message.content is null when the content
\* accumulated for the choice is empty and is that content otherwise, never the
\* empty str; and the message has the key tool_calls, with a list that is not
\* empty, exactly when a tool-call accumulator exists for the choice.
C28_MessageShape ==
    Aggregated
    => \A n \in 1..Len(ResultChoices) :
           LET message == ResultChoices[n].v[K("message")]
               entries == AccumulatedEntries(ResultChoices[n].v[K("index")])
           IN /\ message.v[K("content")] # PyStr(<< >>)
              /\ IsNone(message.v[K("content")]) <=> (Accumulated(entries) = << >>)
              /\ ~IsNone(message.v[K("content")])
                 => message.v[K("content")] = PyStr(Accumulated(entries))
              /\ Has(message, K("tool_calls")) <=> HasAccumulator(entries)
              /\ Has(message, K("tool_calls")) => message.v[K("tool_calls")].v # << >>

\* a choice was given an empty content and an empty list of tool calls by one
\* entry and a tool-call fragment by another: its content is null and it has
\* tool calls; another choice of the same result has content and no tool calls
C28_Witness ==
    /\ Aggregated
    /\ \E k \in 1..Len(EntriesOf(streamEvents)) :
           /\ Has(DeltaOf(EntriesOf(streamEvents)[k]), K("content"))
           /\ DeltaOf(EntriesOf(streamEvents)[k]).v[K("content")] = PyStr(<< >>)
    /\ \E n \in 1..Len(ResultChoices) :
           /\ IsNone(ResultChoices[n].v[K("message")].v[K("content")])
           /\ Has(ResultChoices[n].v[K("message")], K("tool_calls"))
    /\ \E n \in 1..Len(ResultChoices) :
           /\ ~IsNone(ResultChoices[n].v[K("message")].v[K("content")])
           /\ ~Has(ResultChoices[n].v[K("message")], K("tool_calls"))

\* the integer indices of the tool-call fragments among these fragments
FragmentIndices(fragments) ==
    {fragments[j].v[K("index")].v :
        j \in {i \in 1..Len(fragments) :
                  Has(fragments[i], K("index")) /\ fragments[i].v[K("index")].t = "int"}}

\* the integer indices of the tool-call fragments delivered for the choice with
\* this index
PositionsFor(index) ==
    UNION {FragmentIndices(Get(DeltaOf(EntriesOf(streamEvents)[k]), K("tool_calls"),
                               PyList(<< >>)).v) :
              k \in {i \in 1..Len(EntriesOf(streamEvents)) :
                        HasIndex(EntriesOf(streamEvents)[i], index)}}

\* C29: no tool-call index makes the aggregation raise; in the result, every
\* tool-call fragment with an integer index i has position i in the list of its
\* choice, the list being padded to at least i+1 entries, and the arguments at
\* position i are those delivered for position i and for no other; every choice
\* index of the result is a non-negative integer.
C29_FragmentAtItsPosition ==
    /\ ~aggregateResult.raised
    /\ Aggregated
       => \A n \in 1..Len(ResultChoices) :
              /\ ResultChoices[n].v[K("index")].t = "int"
              /\ ResultChoices[n].v[K("index")].v >= 0
              /\ \A i \in PositionsFor(ResultChoices[n].v[K("index")]) :
                     /\ i >= 0
                     /\ Len(ResultTools(n)) >= i + 1
                     /\ TextOf(Get(Get(ResultTools(n)[i + 1], K("function"), EmptyDict),
                                   K("arguments"), None))
                            = ArgumentsFor(EntriesOf(streamEvents),
                                           ResultChoices[n].v[K("index")], i)

\* x has an index that is a JSON integer
WellIndexed(x) == Has(x, K("index")) /\ x.v[K("index")].t = "int"

\* a choices entry without the tool-call fragments that lack an integer index
WithoutMalformedFragments(entry) ==
    IF Has(DeltaOf(entry), K("tool_calls")) /\ IsList(DeltaOf(entry).v[K("tool_calls")])
    THEN Put(entry, K("delta"),
             Put(DeltaOf(entry), K("tool_calls"),
                 PyList(SelectSeq(DeltaOf(entry).v[K("tool_calls")].v, WellIndexed))))
    ELSE entry

\* an event without the choices entries that lack an integer index
WithoutMalformedEntries(event) ==
    IF Has(event, K("choices"))
    THEN Put(event, K("choices"),
             PyList(LET kept == SelectSeq(event.v[K("choices")].v, WellIndexed) IN
                    [k \in 1..Len(kept) |-> WithoutMalformedFragments(kept[k])]))
    ELSE event

\* the stream as if the malformed entries and fragments were absent
WithoutMalformed(evs) == [k \in 1..Len(evs) |-> WithoutMalformedEntries(evs[k])]

\* C30: a choices entry whose index is missing or no integer, and a tool-call
\* fragment whose index is missing or no integer, change nothing: the
\* aggregation gives what it gives for the stream without them.
C30_MalformedIndexIgnored ==
    aggregateResult = aggregate_streamed_response(WithoutMalformed(streamEvents))

\* where a tool-call fragment carries this field: the fragment itself for id and
\* type, its function for name
HolderOf(fragment, field) ==
    IF field = "name" THEN Get(fragment, K("function"), EmptyDict) ELSE fragment

\* the values the fragments with index p supply for this field, in order
RECURSIVE SuppliedBy(_, _, _)
SuppliedBy(fragments, p, field) ==
    IF fragments = << >> THEN << >>
    ELSE (IF HasIndex(Head(fragments), PyInt(p))
             /\ Has(HolderOf(Head(fragments), field), K(field))
          THEN <<HolderOf(Head(fragments), field).v[K(field)]>>
          ELSE << >>) \o SuppliedBy(Tail(fragments), p, field)

\* the values supplied for this field at position p of the choice with this
\* index, in arrival order
RECURSIVE SuppliedFor(_, _, _, _)
SuppliedFor(entries, index, p, field) ==
    IF entries = << >> THEN << >>
    ELSE (IF HasIndex(Head(entries), index)
          THEN SuppliedBy(Get(DeltaOf(Head(entries)), K("tool_calls"), PyList(<< >>)).v,
                          p, field)
          ELSE << >>) \o SuppliedFor(Tail(entries), index, p, field)

\* the tool call agrees with the values supplied for this field: it has the
\* last of them, and lacks the field if none was supplied
LastSupplied(tool, supplied, field) ==
    IF supplied = << >> THEN ~Has(HolderOf(tool, field), K(field))
    ELSE /\ Has(HolderOf(tool, field), K(field))
         /\ HolderOf(tool, field).v[K(field)] = supplied[Len(supplied)]

\* C31: in the result, the id, the type and the function.name at tool-call
\* position p of a choice are each the value of the last fragment delivered for
\* position p of that choice that supplied the field (no concatenation), and are
\* absent if no such fragment supplied it; fragments that do not supply the
\* field, and fragments delivered for another position, leave it as it was.
C31_FieldsOverwritten ==
    Aggregated
    => \A n \in 1..Len(ResultChoices) :
           \A p \in 0..(Len(ResultTools(n)) - 1) :
               \A field \in {"id", "type", "name"} :
                   LastSupplied(ResultTools(n)[p + 1],
                                SuppliedFor(EntriesOf(streamEvents),
                                            ResultChoices[n].v[K("index")], p, field),
                                field)

\* the path of the input destination stored on the exchange, none if no pair is
\* stored
StoredInputPath(f) ==
    IF ValidCorrelation(f) THEN flow[f].metadata[STORAGE_METADATA_KEY].input_path
    ELSE None

\* C32: a response event, on whichever path it leaves the handler, leaves the
\* stored payload and the stored destination pair of the exchange as they were,
\* makes no append call to the stored input destination and leaves the input
\* file as it was.
C32_ResponseOnlyReads ==
    [][\A f \in Flows :
           events'[f] = Append(events[f], "response")
           => /\ flow'[f].metadata = flow[f].metadata
              /\ \A i \in (Len(calls) + 1)..Len(calls') :
                     calls'[i].path # StoredInputPath(f)
              /\ StoredInputPath(f) # None
                 => FileBytes(files', StoredInputPath(f))
                        = FileBytes(files, StoredInputPath(f))]_vars

\* an accepted request under a batch header was answered by an event stream and
\* then by a JSON body: both records are in the output file, the input file holds
\* the one input record, and the exchange still holds the payload and the pair
\* the request stored
C32_Witness ==
    \E f \in Flows :
        /\ events[f] = <<"request", "response", "response">>
        /\ Accepted(f)
        /\ Cardinality(OutputCalls(f)) = 2
        /\ ValidCorrelation(f)
        /\ flow[f].metadata[STORAGE_METADATA_KEY] = resolveCalls[f][1].paths
        /\ flow[f].metadata[STORAGE_METADATA_KEY].input_path
               # resolve([flow[f] EXCEPT !.request.headers = NoHeaders]).input_path
        /\ \E i \in InputCalls(f) :
               /\ flow[f].metadata[REQUEST_METADATA_KEY] = calls[i].payload
               /\ FileBytes(files, calls[i].path) = Dumps(calls[i].payload) \o <<"\n">>

\* C33: every output record of an exchange was appended after the request of
\* that exchange was accepted and its input append was attempted, in the request
\* event that opened the exchange; so an exchange whose request was skipped,
\* vetoed or never seen has no output record, whatever responses arrive on it.
C33_OutputAfterAcceptedRequest ==
    \A f \in Flows :
        \A i \in OutputCalls(f) :
            /\ Accepted(f)
            /\ \E j \in InputCalls(f) : j < i /\ calls[j].event = 1 /\ calls[i].event > 1

\* a request that one preprocessor rewrote was logged and then answered by an
\* event stream: the input call comes first and the output call second
C33_Witness ==
    \E f \in Flows :
        /\ preprocessors = <<"wrap">>
        /\ events[f] = <<"request", "response">>
        /\ flow[f].response = HttpResponse(StreamBody, StreamTypeMixedCase)
        /\ Len(calls) = 2
        /\ InputCalls(f) = {1}
        /\ OutputCalls(f) = {2}

\* the characters a path segment may consist of: ASCII letters, digits, '-', '_'
\* and '.'
SegmentChars == {"a", "b", "x", "A", "Z", "0", "1", "9"} \cup {"-", "_", "."}

\* the directory of a path and its file name
DirOf(path) == SubSeq(path, 1, Len(path) - 1)

NameOf(path) == path[Len(path)]

\* a directory name the router may make of a header value: the fallback name, or
\* one to MaxSegment segment characters that are neither "." nor ".."
SafeSegment(segment) ==
    \/ segment = K("unknown")
    \/ /\ segment # << >>
       /\ Len(segment) <= MaxSegment
       /\ \A i \in 1..Len(segment) : segment[i] \in SegmentChars
       /\ segment \notin {<<".">>, <<".", ".">>}

\* the batch-header value of the request of f
BatchValue(f) == HeaderGet(flow[f].request.headers, header_key)

\* C34: the pair the router returns for a flow names input.jsonl and
\* output.jsonl in one directory; without a batch header, or with an empty one,
\* that directory is the data directory; with any other value it is
\* data_dir/requests/<segment>, the segment being non-empty, of at most 120
\* characters, all letters, digits, '-', '_' or '.', and neither "." nor "..".
C34_PathsConfined ==
    \A f \in Flows :
        \A i \in 1..Len(resolveCalls[f]) :
            LET paths == resolveCalls[f][i].paths IN
            /\ DirOf(paths.input_path) = DirOf(paths.output_path)
            /\ NameOf(paths.input_path) = K("input.jsonl")
            /\ NameOf(paths.output_path) = K("output.jsonl")
            /\ BatchValue(f) = << >> => DirOf(paths.input_path) = data_dir
            /\ BatchValue(f) # << >>
               => /\ Len(paths.input_path) = Len(data_dir) + 3
                  /\ SubSeq(paths.input_path, 1, Len(data_dir) + 1)
                         = Append(data_dir, K("requests"))
                  /\ SafeSegment(paths.input_path[Len(data_dir) + 2])

\* the router was given a header value of MaxSegment + 1 characters, a letter,
\* dots and a letter, and the directory it returned is named by the first
\* MaxSegment of them
C34_Witness ==
    \E f \in Flows :
        /\ Len(resolveCalls[f]) = 1
        /\ Len(BatchValue(f)) = MaxSegment + 1
        /\ BatchValue(f)[1] = "a"
        /\ BatchValue(f)[2] = "."
        /\ BatchValue(f)[MaxSegment + 1] = "a"
        /\ resolveCalls[f][1].paths.input_path[Len(data_dir) + 2]
               = SubSeq(BatchValue(f), 1, MaxSegment)

=============================================================================
